---- MODULE Spec2Model ----
(***************************************************************************)
(* kubectl-container-status: resolution -> concurrent collection ->        *)
(* health scoring.  The model follows pkg/resolver, pkg/collector,         *)
(* pkg/analyzer and pkg/cmd/root.go.                                       *)
(*                                                                         *)
(* Conventions                                                             *)
(*   - a Go pointer is a sequence: Nil is <<>>, a set pointer is <<v>>;    *)
(*   - a float64 percentage is an exact rational [n, d] (d > 0);           *)
(*   - the wall clock is the variable now, in minutes.                     *)
(***************************************************************************)
EXTENDS Integers, Sequences, FiniteSets, TLC

VARIABLES
    now,        \* wall clock read by time.Since / time.Now
    pc,         \* position of the running command / of the function under analysis
    arg,        \* argument of the function under analysis; for the command,
                \* the options as given on the command line
    out,        \* its result
    cluster,    \* objects held by the cluster API
    options,    \* types.Options
    workloads,  \* the []WorkloadInfo of runContainerStatus
    err,        \* error returned by the command, Nil when none
    wi,         \* index of the workload the command is collecting
    pj,         \* index of the pod the command is analyzing
    frame,      \* locals of the running CollectPods call
    tasks,      \* the per-pod goroutines of that call: index -> "running" | "done"
    results,    \* the buffered results channel
    ret         \* what the last CollectPods call returned

command == <<cluster, options, workloads, err, wi, pj, frame, tasks, results, ret>>
vars == <<now, pc, arg, out, cluster, options, workloads, err,
          wi, pj, frame, tasks, results, ret>>

(***************************************************************************)
(* Bounds                                                                  *)
(***************************************************************************)
MaxRestarts == 2
MaxContainers == 4
MaxInitContainers == 1
MaxPods == 2
MaxResolverPods == 4
MaxTicks == 1
MaxFilterPods == 2
MaxFilterWorkloads == 2
MaxEnvVars == 2
MaxSliceLen == 3

(***************************************************************************)
(* Pointers, rationals, character strings                                  *)
(***************************************************************************)
Nil == <<>>
Ptr(v) == <<v>>

Pct(n, d) == [n |-> n, d |-> d]
PctZero == Pct(0, 1)
\* p > k for a float64 p and an integer literal k
PctGT(p, k) == p.n > k * p.d

\* strings.Contains(s, sub)
Contains_Prefix(s, sub) ==
    /\ Len(sub) <= Len(s)
    /\ SubSeq(s, 1, Len(sub)) = sub
Contains(s, sub) ==
    \E i \in 0..(Len(s) - Len(sub)) : SubSeq(s, i + 1, i + Len(sub)) = sub

(***************************************************************************)
(* pkg/types                                                               *)
(***************************************************************************)
HealthLevelHealthy == "Healthy"
HealthLevelDegraded == "Degraded"
HealthLevelCritical == "Critical"

ContainerStatusRunning == "Running"
ContainerStatusWaiting == "Waiting"
ContainerStatusTerminated == "Terminated"
ContainerStatusCompleted == "Completed"
ContainerStatusUnknown == "Unknown"

ContainerTypeInit == "init"
ContainerTypeStandard == "standard"

HealthStatus(level, reason, score) ==
    [Level |-> level, Reason |-> reason, Score |-> score]

ProbeDetails(configured, passing) ==
    [Configured |-> configured, Passing |-> passing]

(***************************************************************************)
(* pkg/analyzer                                                            *)
(***************************************************************************)
RecentRestartWindow == 5

\* hasRecentRestarts: restarts count as recent only when the container
\* started less than five minutes before the clock reading.
hasRecentRestarts_NoWindow(container, clock) ==
    container.RestartCount # 0
hasRecentRestarts(container, clock) ==
    IF container.RestartCount = 0 THEN FALSE
    ELSE IF container.StartedAt = Nil THEN FALSE
    ELSE (clock - container.StartedAt[1]) < RecentRestartWindow

\* the switch on container.Status
statusFloor_NoCrashLoop(container) ==
    CASE container.Status = "Error" ->
            HealthStatus(HealthLevelCritical, "container in error state", 0)
      [] container.Status = ContainerStatusTerminated ->
            IF container.Type # ContainerTypeInit
            THEN HealthStatus(HealthLevelCritical, "container terminated unexpectedly", 0)
            ELSE HealthStatus(HealthLevelHealthy, "", 100)
      [] container.Status \in {"ImagePullBackOff", "ErrImagePull"} ->
            HealthStatus(HealthLevelCritical, "cannot pull container image", 0)
      [] container.Status = ContainerStatusWaiting ->
            HealthStatus(HealthLevelDegraded, "container waiting to start", 50)
      [] container.Status = ContainerStatusRunning ->
            HealthStatus(HealthLevelHealthy, "", 100)
      [] container.Status = ContainerStatusCompleted ->
            HealthStatus(HealthLevelHealthy, "", 100)
      [] OTHER ->
            HealthStatus(HealthLevelDegraded, "unknown container state", 30)
statusFloor(container) ==
    CASE container.Status = "CrashLoopBackOff" ->
            HealthStatus(HealthLevelCritical, "container in CrashLoopBackOff", 0)
      [] container.Status = "Error" ->
            HealthStatus(HealthLevelCritical, "container in error state", 0)
      [] container.Status = ContainerStatusTerminated ->
            IF container.Type # ContainerTypeInit
            THEN HealthStatus(HealthLevelCritical, "container terminated unexpectedly", 0)
            ELSE HealthStatus(HealthLevelHealthy, "", 100)
      [] container.Status \in {"ImagePullBackOff", "ErrImagePull"} ->
            HealthStatus(HealthLevelCritical, "cannot pull container image", 0)
      [] container.Status = ContainerStatusWaiting ->
            HealthStatus(HealthLevelDegraded, "container waiting to start", 50)
      [] container.Status = ContainerStatusRunning ->
            HealthStatus(HealthLevelHealthy, "", 100)
      [] container.Status = ContainerStatusCompleted ->
            HealthStatus(HealthLevelHealthy, "", 100)
      [] OTHER ->
            HealthStatus(HealthLevelDegraded, "unknown container state", 30)

\* exit code of the current terminated state
exitCodeRule(container, h) ==
    IF /\ container.Status = ContainerStatusTerminated
       /\ container.ExitCode # Nil
       /\ container.ExitCode[1] # 0
       /\ h.Level # HealthLevelCritical
    THEN HealthStatus(HealthLevelDegraded, "terminated with non-zero exit code", h.Score - 20)
    ELSE h

restartRule(container, h, clock) ==
    IF container.RestartCount > 0 /\ hasRecentRestarts(container, clock)
    THEN IF h.Level = HealthLevelHealthy
         THEN HealthStatus(HealthLevelDegraded, "recent restarts detected", h.Score - 25)
         ELSE HealthStatus(h.Level, h.Reason, h.Score - 25)
    ELSE h

livenessRule(container, h) ==
    IF ~container.Probes.Liveness.Passing /\ container.Probes.Liveness.Configured
    THEN HealthStatus(HealthLevelCritical, "liveness probe failing", 0)
    ELSE h

readinessRule_Bonus(container, h) ==
    IF ~container.Probes.Readiness.Passing /\ container.Probes.Readiness.Configured
    THEN HealthStatus(h.Level, h.Reason, h.Score + 15)
    ELSE h
readinessRule(container, h) ==
    IF ~container.Probes.Readiness.Passing /\ container.Probes.Readiness.Configured
    THEN IF h.Level = HealthLevelHealthy
         THEN HealthStatus(HealthLevelDegraded, "readiness probe failing", h.Score - 15)
         ELSE HealthStatus(h.Level, h.Reason, h.Score - 15)
    ELSE h

memoryRule_Threshold90(container, h) ==
    IF PctGT(container.Resources.MemPercentage, 90)
    THEN IF h.Level = HealthLevelHealthy
         THEN HealthStatus(HealthLevelDegraded, "high memory usage", h.Score - 20)
         ELSE HealthStatus(h.Level, h.Reason, h.Score - 20)
    ELSE h
memoryRule(container, h) ==
    IF PctGT(container.Resources.MemPercentage, 85)
    THEN IF h.Level = HealthLevelHealthy
         THEN HealthStatus(HealthLevelDegraded, "high memory usage", h.Score - 20)
         ELSE HealthStatus(h.Level, h.Reason, h.Score - 20)
    ELSE h

cpuRule_KeepsLevel(container, h) ==
    IF PctGT(container.Resources.CPUPercentage, 90)
    THEN HealthStatus(h.Level, h.Reason, h.Score - 15)
    ELSE h
cpuRule(container, h) ==
    IF PctGT(container.Resources.CPUPercentage, 90)
    THEN IF h.Level = HealthLevelHealthy
         THEN HealthStatus(HealthLevelDegraded, "high CPU usage", h.Score - 15)
         ELSE HealthStatus(h.Level, h.Reason, h.Score - 15)
    ELSE h

oomRule(container, h) ==
    IF Contains(container.TerminationReason, "OOMKilled")
    THEN HealthStatus(HealthLevelCritical, "container killed due to out of memory", 0)
    ELSE h

clampScore_None(h) == h
clampScore(h) ==
    IF h.Score < 0 THEN HealthStatus(h.Level, h.Reason, 0) ELSE h

analyzeContainerHealth(container, clock) ==
    LET h1 == statusFloor(container)
        h2 == exitCodeRule(container, h1)
        h3 == restartRule(container, h2, clock)
        h4 == livenessRule(container, h3)
        h5 == readinessRule(container, h4)
        h6 == memoryRule(container, h5)
        h7 == cpuRule(container, h6)
        h8 == oomRule(container, h7)
    IN  clampScore(h8)

\* score deducted in AnalyzePodHealth for a container of the given level
podPenalty_CriticalAsDegraded(level) ==
    IF level = HealthLevelCritical THEN 15
    ELSE IF level = HealthLevelDegraded THEN 15 ELSE 0
podPenalty(level) ==
    IF level = HealthLevelCritical THEN 30
    ELSE IF level = HealthLevelDegraded THEN 15 ELSE 0

\* the loop of AnalyzePodHealth over append(InitContainers, Containers...)
RECURSIVE podLoop(_, _, _, _)
podLoop(allContainers, i, acc, clock) ==
    IF i > Len(allContainers) THEN acc
    ELSE LET containerHealth == analyzeContainerHealth(allContainers[i], clock)
             counted ==
                 IF containerHealth.Level = HealthLevelCritical
                 THEN [acc EXCEPT !.criticalContainers = @ + 1,
                                  !.score = @ - podPenalty(containerHealth.Level)]
                 ELSE IF containerHealth.Level = HealthLevelDegraded
                 THEN [acc EXCEPT !.degradedContainers = @ + 1,
                                  !.score = @ - podPenalty(containerHealth.Level)]
                 ELSE acc
             noted ==
                 IF containerHealth.Reason # ""
                 THEN [counted EXCEPT !.issues = Append(@, containerHealth.Reason)]
                 ELSE counted
         IN  podLoop(allContainers, i + 1, noted, clock)

AnalyzePodHealth(pod, clock) ==
    LET allContainers == pod.InitContainers \o pod.Containers
        acc == podLoop(allContainers, 1,
                       [score |-> 100, criticalContainers |-> 0,
                        degradedContainers |-> 0, issues |-> <<>>], clock)
        level == IF acc.criticalContainers > 0 THEN HealthLevelCritical
                 ELSE IF acc.degradedContainers > 0 THEN HealthLevelDegraded
                 ELSE HealthLevelHealthy
        reason == IF acc.criticalContainers > 0
                  THEN IF Len(acc.issues) > 0 THEN acc.issues[1]
                       ELSE "containers in critical state"
                  ELSE IF acc.degradedContainers > 0
                  THEN IF Len(acc.issues) > 0 THEN acc.issues[1]
                       ELSE "containers have issues"
                  ELSE "all containers running normally"
        score == IF acc.score < 0 THEN 0 ELSE acc.score
    IN  HealthStatus(level, reason, score)

(***************************************************************************)
(* Inputs of the container scorer                                          *)
(***************************************************************************)
InitialNow == 5

StatusValues ==
    {"CrashLoopBackOff", "Error", ContainerStatusTerminated, "ImagePullBackOff",
     "ErrImagePull", ContainerStatusWaiting, ContainerStatusRunning,
     ContainerStatusCompleted, ContainerStatusUnknown, "ContainerCreating"}

ProbeValues ==
    {ProbeDetails(FALSE, FALSE), ProbeDetails(TRUE, TRUE), ProbeDetails(TRUE, FALSE)}

MemPercentValues == {Pct(50, 1), Pct(85, 1), Pct(171, 2)}
CPUPercentValues == {Pct(30, 1), Pct(91, 1)}

TerminationReasonValues ==
    {"", "Error", "OOMKilled", "Container" \o "OOMKilled"}

\* started one minute ago, or exactly RecentRestartWindow ago, or never
StartedAtValues == {Nil, Ptr(InitialNow - 1), Ptr(InitialNow - RecentRestartWindow)}

ContainerInputs ==
    [Name : {"c1"},
     Type : {ContainerTypeInit, ContainerTypeStandard},
     Status : StatusValues,
     RestartCount : {0, MaxRestarts},
     ExitCode : {Nil, Ptr(0), Ptr(1)},
     StartedAt : StartedAtValues,
     Probes : [Liveness : ProbeValues, Readiness : ProbeValues],
     Resources : [CPUPercentage : CPUPercentValues, MemPercentage : MemPercentValues],
     TerminationReason : TerminationReasonValues]

(***************************************************************************)
(* The two problematic predicates for a container                          *)
(***************************************************************************)
\* Analyzer.IsContainerProblematic goes through the health scorer
IsContainerProblematic(container, clock) ==
    LET health == analyzeContainerHealth(container, clock)
    IN  health.Level = HealthLevelCritical \/ health.Level = HealthLevelDegraded

\* pkg/cmd isContainerProblematic, used by the --problematic filter
isContainerProblematic_NoRestarts(container) ==
    \/ container.ExitCode # Nil /\ container.ExitCode[1] # 0
    \/ container.Status = "CrashLoopBackOff"
    \/ container.Status = "Error"
    \/ container.Status = "Terminated" /\ container.Type # "init"
    \/ ~container.Probes.Liveness.Passing /\ container.Probes.Liveness.Configured
    \/ ~container.Probes.Readiness.Passing /\ container.Probes.Readiness.Configured
    \/ PctGT(container.Resources.MemPercentage, 90)
    \/ Contains(container.TerminationReason, "OOMKilled")
isContainerProblematic(container) ==
    \/ container.ExitCode # Nil /\ container.ExitCode[1] # 0
    \/ container.RestartCount > 0
    \/ container.Status = "CrashLoopBackOff"
    \/ container.Status = "Error"
    \/ container.Status = "Terminated" /\ container.Type # "init"
    \/ ~container.Probes.Liveness.Passing /\ container.Probes.Liveness.Configured
    \/ ~container.Probes.Readiness.Passing /\ container.Probes.Readiness.Configured
    \/ PctGT(container.Resources.MemPercentage, 90)
    \/ Contains(container.TerminationReason, "OOMKilled")

NoValue == [none |-> TRUE]

\* the analyzer is called directly: no cluster, no command running
NoCommand ==
    /\ cluster = NoValue
    /\ options = NoValue
    /\ workloads = <<>>
    /\ err = Nil
    /\ wi = 0
    /\ pj = 0
    /\ frame = NoValue
    /\ tasks = <<>>
    /\ results = <<>>
    /\ ret = NoValue

(***************************************************************************)
(* SpecContainer: analyzeContainerHealth applied to one container          *)
(***************************************************************************)
InitContainer ==
    /\ now = InitialNow
    /\ pc = "container"
    /\ arg \in ContainerInputs
    /\ out = NoValue
    /\ NoCommand

AnalyzeContainer ==
    /\ pc = "container"
    /\ out' = analyzeContainerHealth(arg, now)
    /\ pc' = "container_done"
    /\ UNCHANGED <<now, arg, command>>

\* Analyzer.IsContainerProblematic called on the container
CheckProblematic ==
    /\ pc = "container"
    /\ out' = [problematic |-> IsContainerProblematic(arg, now)]
    /\ pc' = "problematic_done"
    /\ UNCHANGED <<now, arg, command>>

\* the filter's isContainerProblematic called on the container
FilterContainer ==
    /\ pc = "container"
    /\ out' = [problematic |-> isContainerProblematic(arg)]
    /\ pc' = "filter_done"
    /\ UNCHANGED <<now, arg, command>>

NextContainer ==
    \/ AnalyzeContainer
    \/ CheckProblematic
    \/ FilterContainer

SpecContainer == InitContainer /\ [][NextContainer]_vars

LivenessFailing(c) == c.Probes.Liveness.Configured /\ ~c.Probes.Liveness.Passing
ReadinessFailing(c) == c.Probes.Readiness.Configured /\ ~c.Probes.Readiness.Passing
OOMKilledReason(c) == Contains(c.TerminationReason, "OOMKilled")

OtherwiseHealthyRunning(c, clock) ==
    /\ c.Status = ContainerStatusRunning
    /\ ~hasRecentRestarts(c, clock)
    /\ ~LivenessFailing(c)
    /\ ~ReadinessFailing(c)
    /\ ~PctGT(c.Resources.CPUPercentage, 90)
    /\ ~OOMKilledReason(c)

\* C8: a Running container with no other adverse signal is Degraded / 80 /
\* "high memory usage" when its memory percentage is strictly above 85 and
\* Healthy / 100 when it is 85 or less.
C8_HighMemory ==
    (pc = "container_done" /\ OtherwiseHealthyRunning(arg, now)) =>
        IF PctGT(arg.Resources.MemPercentage, 85)
        THEN out = HealthStatus(HealthLevelDegraded, "high memory usage", 80)
        ELSE out.Level = HealthLevelHealthy /\ out.Score = 100

C8_Witness ==
    /\ pc = "container_done"
    /\ OtherwiseHealthyRunning(arg, now)
    /\ arg.Resources.MemPercentage = Pct(171, 2)
    /\ arg.RestartCount > 0
    /\ out.Level = HealthLevelDegraded

\* C11: the filter's predicate is true for every container that has restarted,
\* however long ago it started, also when the health scorer finds it Healthy
\* with score 100.
C11_FilterRestarts ==
    (pc = "filter_done" /\ arg.RestartCount > 0) => out.problematic

\* a container the scorer finds Healthy / 100 because its restart is old
C11_Witness ==
    /\ pc = "filter_done"
    /\ arg.RestartCount > 0
    /\ arg.StartedAt = Ptr(InitialNow - RecentRestartWindow)
    /\ analyzeContainerHealth(arg, now) = HealthStatus(HealthLevelHealthy, "", 100)
    /\ out.problematic

\* C12 (as stated): Analyzer.IsContainerProblematic is true for every container
\* that has restarted, whatever its start time, and false for a Running
\* container without restarts, with passing probes and memory at 50%.
C12_AnalyzerRestarts ==
    pc = "problematic_done" =>
        /\ arg.RestartCount > 0 => out.problematic
        /\ (/\ arg.Status = ContainerStatusRunning
            /\ arg.RestartCount = 0
            /\ arg.Probes.Liveness = ProbeDetails(TRUE, TRUE)
            /\ arg.Probes.Readiness = ProbeDetails(TRUE, TRUE)
            /\ arg.Resources.MemPercentage = Pct(50, 1)
            /\ arg.Resources.CPUPercentage = Pct(30, 1)
            /\ arg.TerminationReason = "") => ~out.problematic

\* the order of the levels, from best to worst
LevelRank(level) ==
    IF level = HealthLevelHealthy THEN 0
    ELSE IF level = HealthLevelDegraded THEN 1
    ELSE 2

LivenessFails(container) ==
    container.Probes.Liveness.Configured /\ ~container.Probes.Liveness.Passing

OOMKilled(container) ==
    \E i \in 0..Len(container.TerminationReason) :
        \E j \in i..Len(container.TerminationReason) :
            SubSeq(container.TerminationReason, i + 1, j) = "OOMKilled"

\* C22: after the status floor the rules only worsen the result: the final
\* level is never better and the final score never higher than the floor's,
\* and a container that is Critical without a Critical floor has a failing
\* configured liveness probe or an OOMKilled termination reason.
C22_RulesOnlyWorsen ==
    pc = "container_done" =>
        /\ LevelRank(out.Level) >= LevelRank(statusFloor(arg).Level)
        /\ out.Score <= statusFloor(arg).Score
        /\ (out.Level = HealthLevelCritical
             /\ statusFloor(arg).Level # HealthLevelCritical)
               => (LivenessFails(arg) \/ OOMKilled(arg))

\* a waiting container (floor Degraded, 50) forced to Critical by its
\* liveness probe, with a failing readiness probe as well
C22_Witness ==
    /\ pc = "container_done"
    /\ arg.Status = ContainerStatusWaiting
    /\ LivenessFails(arg)
    /\ arg.Probes.Readiness = ProbeDetails(TRUE, FALSE)
    /\ ~OOMKilled(arg)
    /\ out.Level = HealthLevelCritical
    /\ out.Score = 0

\* C23: an OOMKilled termination reason or a failing configured liveness
\* probe gives Critical with score 0 whatever the other fields are, and with
\* OOMKilled the reason is always the out-of-memory reason.
C23_ForcedCritical ==
    pc = "container_done" =>
        /\ (OOMKilled(arg) \/ LivenessFails(arg))
              => (out.Level = HealthLevelCritical /\ out.Score = 0)
        /\ OOMKilled(arg) => out.Reason = "container killed due to out of memory"

\* a running container whose reason contains OOMKilled after other text,
\* with failing probes, recent restarts and high usage
C23_Witness ==
    /\ pc = "container_done"
    /\ arg.Status = ContainerStatusRunning
    /\ arg.TerminationReason = "Container" \o "OOMKilled"
    /\ LivenessFails(arg)
    /\ arg.Probes.Readiness = ProbeDetails(TRUE, FALSE)
    /\ arg.RestartCount > 0
    /\ arg.StartedAt = Ptr(InitialNow - 1)
    /\ PctGT(arg.Resources.MemPercentage, 85)
    /\ out = HealthStatus(HealthLevelCritical, "container killed due to out of memory", 0)

\* the restart rule is to fire: restarts, and a start time less than the
\* window old
RestartsAreRecent(container, clock) ==
    /\ container.RestartCount > 0
    /\ container.StartedAt # Nil
    /\ clock - container.StartedAt[1] < RecentRestartWindow

\* the result when the restart rule turns the result of the earlier rules
\* into expected, and the later rules follow
AfterRestartRule(container, expected) ==
    clampScore(oomRule(container, cpuRule(container, memoryRule(container,
        readinessRule(container, livenessRule(container, expected))))))

C28_LevelScoreConsistent ==
    pc = "container_done" =>
        /\ (out.Level = HealthLevelHealthy) <=> (out.Score = 100)
        /\ out.Level = HealthLevelCritical => out.Score = 0

\* a Degraded container clamped to score 0, and so not Critical at score 0
C28_Witness ==
    /\ pc = "container_done"
    /\ arg.Status = ContainerStatusUnknown
    /\ PctGT(arg.Resources.CPUPercentage, 90)
    /\ PctGT(arg.Resources.MemPercentage, 85)
    /\ out.Level = HealthLevelDegraded
    /\ out.Score = 0

(***************************************************************************)
(* Inputs of the pod scorer                                                *)
(***************************************************************************)
SampleContainer(type, status, restarts, exitCode, mem) ==
    [Name |-> "c1",
     Type |-> type,
     Status |-> status,
     RestartCount |-> restarts,
     ExitCode |-> exitCode,
     StartedAt |-> Ptr(InitialNow - 1),
     Probes |-> [Liveness |-> ProbeDetails(TRUE, TRUE),
                 Readiness |-> ProbeDetails(FALSE, FALSE)],
     Resources |-> [CPUPercentage |-> Pct(30, 1), MemPercentage |-> mem],
     TerminationReason |-> ""]

StandardContainerValues ==
    {SampleContainer(ContainerTypeStandard, s, r, Nil, Pct(50, 1)) :
        s \in {ContainerStatusRunning, "CrashLoopBackOff", ContainerStatusWaiting},
        r \in {0, MaxRestarts}}
    \cup {SampleContainer(ContainerTypeStandard, ContainerStatusRunning, 0, Nil, Pct(95, 1))}

InitContainerValues ==
    {SampleContainer(ContainerTypeInit, ContainerStatusCompleted, 0, Ptr(0), Pct(0, 1)),
     SampleContainer(ContainerTypeInit, ContainerStatusTerminated, 0, Ptr(1), Pct(0, 1)),
     SampleContainer(ContainerTypeInit, "Error", 0, Nil, Pct(0, 1))}

SeqsUpTo(S, n) == UNION {[1..k -> S] : k \in 0..n}

PodInputs ==
    [Name : {"p1"},
     Status : {"Running"},
     InitContainers : SeqsUpTo(InitContainerValues, MaxInitContainers),
     Containers : SeqsUpTo(StandardContainerValues, MaxContainers)]

(***************************************************************************)
(* SpecPod: AnalyzePodHealth applied to one pod                            *)
(***************************************************************************)
InitPod ==
    /\ now = InitialNow
    /\ pc = "pod"
    /\ arg \in PodInputs
    /\ out = NoValue
    /\ NoCommand

AnalyzePod ==
    /\ pc = "pod"
    /\ out' = AnalyzePodHealth(arg, now)
    /\ pc' = "pod_done"
    /\ UNCHANGED <<now, arg, command>>

NextPod == AnalyzePod

SpecPod == InitPod /\ [][NextPod]_vars

AllContainers(pod) == pod.InitContainers \o pod.Containers

CountLevel(pod, level, clock) ==
    Cardinality({i \in 1..Len(AllContainers(pod)) :
                    analyzeContainerHealth(AllContainers(pod)[i], clock).Level = level})

Max0(x) == IF x < 0 THEN 0 ELSE x

\* C9: the pod level is Critical if any container is Critical, else Degraded
\* if any is Degraded, else Healthy, and the pod score is
\* max(0, 100 - 30 * #Critical - 15 * #Degraded).
C9_PodHealth ==
    pc = "pod_done" =>
        LET crit == CountLevel(arg, HealthLevelCritical, now)
            deg == CountLevel(arg, HealthLevelDegraded, now)
        IN  /\ out.Level = IF crit > 0 THEN HealthLevelCritical
                           ELSE IF deg > 0 THEN HealthLevelDegraded
                           ELSE HealthLevelHealthy
            /\ out.Score = Max0(100 - 30 * crit - 15 * deg)

\* a pod whose raw score is negative (clamped) with both kinds of container
C9_Witness ==
    /\ pc = "pod_done"
    /\ CountLevel(arg, HealthLevelCritical, now) = 3
    /\ CountLevel(arg, HealthLevelDegraded, now) = 2
    /\ Len(arg.InitContainers) = 1
    /\ out.Score = 0
    /\ out.Level = HealthLevelCritical

\* the positions of the containers of a level, in init-then-standard order
LevelPositions(pod, level, clock) ==
    {i \in 1..Len(AllContainers(pod)) :
        analyzeContainerHealth(AllContainers(pod)[i], clock).Level = level}

FirstReason(pod, positions, clock) ==
    analyzeContainerHealth(
        AllContainers(pod)[CHOOSE i \in positions : \A j \in positions : i <= j],
        clock).Reason

\* C25: the pod's reason is the reason of the first Critical container in
\* init-then-standard order if there is one, else the reason of the first
\* Degraded container, else "all containers running normally"; a Degraded
\* container before a Critical one does not change that.
C25_PodReason ==
    pc = "pod_done" =>
        out.Reason =
            IF LevelPositions(arg, HealthLevelCritical, now) # {}
            THEN FirstReason(arg, LevelPositions(arg, HealthLevelCritical, now), now)
            ELSE IF LevelPositions(arg, HealthLevelDegraded, now) # {}
            THEN FirstReason(arg, LevelPositions(arg, HealthLevelDegraded, now), now)
            ELSE "all containers running normally"

(***************************************************************************)
(* pkg/resolver                                                            *)
(***************************************************************************)
WorkloadInfo(name, kind, namespace, replicas, labels, selector) ==
    [Name |-> name, Kind |-> kind, Namespace |-> namespace,
     Replicas |-> replicas, Labels |-> labels, Selector |-> selector,
     Pods |-> <<>>, Health |-> HealthStatus("", "", 0)]

\* fmt.Sprintf("%d/%d", a, b)
Replicas(a, b) == ToString(a) \o "/" \o ToString(b)

\* <Kind>(namespace).Get(ctx, name): the object, or Nil when the call fails
Get(objects, namespace, name) ==
    LET found == {o \in objects : o.Namespace = namespace /\ o.Name = name}
    IN  IF found = {} THEN Nil ELSE Ptr(CHOOSE o \in found : TRUE)

PodSet(c) == {c.pods[i] : i \in DOMAIN c.pods}

\* Pods(namespace).List with a label selector; namespace "" lists every
\* namespace, an empty selector selects every pod
ListPods_IgnoreNamespace(c, namespace, selector) ==
    SelectSeq(c.pods, LAMBDA p : selector \subseteq p.Labels)
ListPods(c, namespace, selector) ==
    SelectSeq(c.pods, LAMBDA p : /\ (namespace = "" \/ p.Namespace = namespace)
                                 /\ selector \subseteq p.Labels)

ResolveOk(ws) == [workloads |-> ws, err |-> Nil, panic |-> FALSE]
ResolveErr(e) == [workloads |-> <<>>, err |-> Ptr(e), panic |-> FALSE]
\* nil pointer dereference inside the resolver
ResolvePanic == [workloads |-> <<>>, err |-> Nil, panic |-> TRUE]

\* getWorkloadFromPod: the first owner reference that resolves to a workload
RECURSIVE ownerLoop(_, _, _)
ownerLoop(c, pod, i) ==
    IF i > Len(pod.OwnerReferences) THEN Nil
    ELSE LET owner == pod.OwnerReferences[i]
         IN  CASE owner.Kind = "ReplicaSet" ->
                    LET rs == Get(c.replicasets, pod.Namespace, owner.Name)
                        deployments ==
                            IF rs = Nil THEN <<>>
                            ELSE SelectSeq(rs[1].OwnerReferences,
                                           LAMBDA o : o.Kind = "Deployment")
                    IN  IF deployments # <<>>
                        THEN Ptr(WorkloadInfo(deployments[1].Name, "Deployment",
                                              pod.Namespace, "", pod.Labels, {}))
                        ELSE ownerLoop(c, pod, i + 1)
               [] owner.Kind \in {"StatefulSet", "DaemonSet", "Job"} ->
                    Ptr(WorkloadInfo(owner.Name, owner.Kind, pod.Namespace,
                                     "", pod.Labels, {}))
               [] OTHER -> ownerLoop(c, pod, i + 1)

getWorkloadFromPod(c, pod) == ownerLoop(c, pod, 1)

\* fmt.Sprintf("%s/%s/%s", kind, namespace, name)
workloadKey_NoNamespace(kind, namespace, name) == kind \o "/" \o name
workloadKey(kind, namespace, name) == kind \o "/" \o namespace \o "/" \o name

MapPut(m, k, v) == [x \in (DOMAIN m) \cup {k} |-> IF x = k THEN v ELSE m[x]]
EmptyMap == [x \in {} |-> NoValue]

\* the grouping loop of resolveBySelector
RECURSIVE groupLoop(_, _, _, _)
groupLoop(c, pods, i, workloadMap) ==
    IF i > Len(pods) THEN workloadMap
    ELSE LET pod == pods[i]
             workload == getWorkloadFromPod(c, pod)
         IN  IF workload = Nil
             THEN groupLoop(c, pods, i + 1,
                      MapPut(workloadMap, workloadKey("pod", pod.Namespace, pod.Name),
                             WorkloadInfo(pod.Name, "Pod", pod.Namespace, "1/1",
                                          pod.Labels, {})))
             ELSE LET key == workloadKey(workload[1].Kind, workload[1].Namespace,
                                         workload[1].Name)
                  IN  IF key \in DOMAIN workloadMap
                      THEN groupLoop(c, pods, i + 1, workloadMap)
                      ELSE groupLoop(c, pods, i + 1, MapPut(workloadMap, key, workload[1]))

\* every order in which ranging over a Go map can visit its entries
Orderings(S) ==
    {f \in [1..Cardinality(S) -> S] : \A i, j \in DOMAIN f : i # j => f[i] # f[j]}

resolveBySelector(c, opts) ==
    IF ~opts.Selector.Valid
    THEN {ResolveErr([msg |-> "invalid selector", arg |-> opts.Selector.Raw])}
    ELSE LET namespace == IF opts.AllNamespaces THEN "" ELSE opts.Namespace
             pods == ListPods(c, namespace, opts.Selector.Requirements)
         IN  IF Len(pods) = 0
             THEN {ResolveErr([msg |-> "no pods found matching selector",
                               arg |-> opts.Selector.Raw])}
             ELSE LET workloadMap == groupLoop(c, pods, 1, EmptyMap)
                  IN  {ResolveOk([i \in DOMAIN order |-> workloadMap[order[i]]]) :
                          order \in Orderings(DOMAIN workloadMap)}

autoDetectAndResolve(c, opts) ==
    LET resourceName == opts.ResourceName
        namespace == opts.Namespace
        pod == Get(PodSet(c), namespace, resourceName)
        deployment == Get(c.deployments, namespace, resourceName)
        statefulset == Get(c.statefulsets, namespace, resourceName)
        daemonset == Get(c.daemonsets, namespace, resourceName)
        job == Get(c.jobs, namespace, resourceName)
    IN  IF pod # Nil
        THEN ResolveOk(<<WorkloadInfo(pod[1].Name, "Pod", pod[1].Namespace, "1/1",
                                     pod[1].Labels, {})>>)
        ELSE IF deployment # Nil
        THEN ResolveOk(<<WorkloadInfo(deployment[1].Name, "Deployment",
                            deployment[1].Namespace,
                            Replicas(deployment[1].ReadyReplicas, deployment[1].Replicas),
                            deployment[1].Labels, deployment[1].Selector)>>)
        ELSE IF statefulset # Nil
        THEN ResolveOk(<<WorkloadInfo(statefulset[1].Name, "StatefulSet",
                            statefulset[1].Namespace,
                            Replicas(statefulset[1].ReadyReplicas, statefulset[1].Replicas),
                            statefulset[1].Labels, statefulset[1].Selector)>>)
        ELSE IF daemonset # Nil
        THEN ResolveOk(<<WorkloadInfo(daemonset[1].Name, "DaemonSet",
                            daemonset[1].Namespace,
                            Replicas(daemonset[1].NumberReady,
                                     daemonset[1].DesiredNumberScheduled),
                            daemonset[1].Labels, daemonset[1].Selector)>>)
        ELSE IF job # Nil
        THEN IF job[1].Completions = Nil \/ ~job[1].HasSelector
             THEN ResolvePanic
             ELSE ResolveOk(<<WorkloadInfo(job[1].Name, "Job", job[1].Namespace,
                                 Replicas(job[1].Succeeded, job[1].Completions[1]),
                                 job[1].Labels, job[1].Selector)>>)
        ELSE ResolveErr([msg |-> "not found as Pod, Deployment, StatefulSet, DaemonSet, or Job",
                         arg |-> resourceName])

\* strings.ToLower on the resource types a user writes
ToLower(t) ==
    CASE t = "Deployment" -> "deployment"
      [] t = "Pod" -> "pod"
      [] t = "Job" -> "job"
      [] OTHER -> t

resolveByType(c, opts) ==
    LET resourceName == opts.ResourceName
        resourceType == ToLower(opts.ResourceType)
        namespace == opts.Namespace
        pod == Get(PodSet(c), namespace, resourceName)
        deployment == Get(c.deployments, namespace, resourceName)
        statefulset == Get(c.statefulsets, namespace, resourceName)
        daemonset == Get(c.daemonsets, namespace, resourceName)
        job == Get(c.jobs, namespace, resourceName)
    IN  CASE resourceType \in {"pod", "pods", "po"} ->
                IF pod = Nil
                THEN ResolveErr([msg |-> "failed to get pod", arg |-> resourceName])
                ELSE ResolveOk(<<WorkloadInfo(pod[1].Name, "Pod", pod[1].Namespace,
                                             "1/1", pod[1].Labels, {})>>)
          [] resourceType \in {"deployment", "deployments", "deploy"} ->
                IF deployment = Nil
                THEN ResolveErr([msg |-> "failed to get deployment", arg |-> resourceName])
                ELSE ResolveOk(<<WorkloadInfo(deployment[1].Name, "Deployment",
                         deployment[1].Namespace,
                         Replicas(deployment[1].ReadyReplicas, deployment[1].Replicas),
                         deployment[1].Labels, deployment[1].Selector)>>)
          [] resourceType \in {"statefulset", "statefulsets", "sts"} ->
                IF statefulset = Nil
                THEN ResolveErr([msg |-> "failed to get statefulset", arg |-> resourceName])
                ELSE ResolveOk(<<WorkloadInfo(statefulset[1].Name, "StatefulSet",
                         statefulset[1].Namespace,
                         Replicas(statefulset[1].ReadyReplicas, statefulset[1].Replicas),
                         statefulset[1].Labels, statefulset[1].Selector)>>)
          [] resourceType \in {"daemonset", "daemonsets", "ds"} ->
                IF daemonset = Nil
                THEN ResolveErr([msg |-> "failed to get daemonset", arg |-> resourceName])
                ELSE ResolveOk(<<WorkloadInfo(daemonset[1].Name, "DaemonSet",
                         daemonset[1].Namespace,
                         Replicas(daemonset[1].NumberReady,
                                  daemonset[1].DesiredNumberScheduled),
                         daemonset[1].Labels, daemonset[1].Selector)>>)
          [] resourceType \in {"job", "jobs"} ->
                IF job = Nil
                THEN ResolveErr([msg |-> "failed to get job", arg |-> resourceName])
                ELSE IF ~job[1].HasSelector
                THEN ResolvePanic
                ELSE LET completions == IF job[1].Completions # Nil
                                        THEN job[1].Completions[1] ELSE 1
                     IN  ResolveOk(<<WorkloadInfo(job[1].Name, "Job", job[1].Namespace,
                              Replicas(job[1].Succeeded, completions),
                              job[1].Labels, job[1].Selector)>>)
          [] OTHER ->
                ResolveErr([msg |-> "unsupported resource type", arg |-> resourceType])

\* Resolver.Resolve: the set of results it can return (a selector result is
\* built by ranging over a map, so its order is not determined)
Resolve(c, opts) ==
    IF opts.Selector.Raw # ""
    THEN resolveBySelector(c, opts)
    ELSE IF opts.ResourceName = ""
    THEN {ResolveErr([msg |-> "resource name is required", arg |-> ""])}
    ELSE IF opts.ResourceType = ""
    THEN {autoDetectAndResolve(c, opts)}
    ELSE {resolveByType(c, opts)}

(***************************************************************************)
(* Cluster objects and options given to the resolver                       *)
(***************************************************************************)
NoSelector == [Raw |-> "", Valid |-> TRUE, Requirements |-> {}]
LabelSelector(label) == [Raw |-> label, Valid |-> TRUE, Requirements |-> {label}]
InvalidSelector == [Raw |-> "tier in", Valid |-> FALSE, Requirements |-> {}]

OwnerReference(kind, name) == [Kind |-> kind, Name |-> name]

ResolverPod(name, namespace, labels, owners) ==
    [Name |-> name, Namespace |-> namespace, Labels |-> labels,
     OwnerReferences |-> owners]

\* the pods a cluster may hold, in the order the API lists them
ResolverPodUniverse ==
    << ResolverPod("agent-x", "ns1", {"tier=be", "app=agent"},
                   <<OwnerReference("DaemonSet", "agent")>>),
       ResolverPod("db-0", "ns1", {"tier=be", "app=db"},
                   <<OwnerReference("StatefulSet", "db")>>),
       ResolverPod("job-x", "ns1", {"tier=be", "app=job"},
                   <<OwnerReference("Node", "n1"), OwnerReference("Job", "web")>>),
       ResolverPod("web", "ns1", {"tier=be"}, <<>>),
       ResolverPod("web-1", "ns1", {"tier=be", "app=web"},
                   <<OwnerReference("ReplicaSet", "web-rs")>>),
       ResolverPod("web-2", "ns1", {"tier=be", "app=web"},
                   <<OwnerReference("ReplicaSet", "web-rs")>>),
       ResolverPod("db-0", "ns2", {"tier=be", "app=db"},
                   <<OwnerReference("StatefulSet", "db")>>) >>

\* the subsequences of a sequence that keep at most n elements
SubSeqsUpTo(seq, n) ==
    {SelectSeq(seq, LAMBDA x : x \in keep) :
        keep \in {k \in SUBSET {seq[i] : i \in DOMAIN seq} : Cardinality(k) <= n}}

Controller(name, ready, replicas, selector) ==
    [Name |-> name, Namespace |-> "ns1", Labels |-> {"app=web"},
     ReadyReplicas |-> ready, Replicas |-> replicas,
     NumberReady |-> ready, DesiredNumberScheduled |-> replicas,
     Selector |-> selector]

JobObject(name, succeeded, completions) ==
    [Name |-> name, Namespace |-> "ns1", Labels |-> {"app=job"},
     Succeeded |-> succeeded, Completions |-> completions,
     HasSelector |-> TRUE, Selector |-> {"app=job"}]

\* a Job whose Spec.Selector is nil
JobWithoutSelector(name, succeeded, completions) ==
    [JobObject(name, succeeded, completions) EXCEPT !.HasSelector = FALSE, !.Selector = {}]

ReplicaSetObject(name, owners) ==
    [Name |-> name, Namespace |-> "ns1", OwnerReferences |-> owners]

ResolverClusters ==
    [pods : SubSeqsUpTo(ResolverPodUniverse, MaxResolverPods),
     replicasets : {{}, {ReplicaSetObject("web-rs", <<>>)},
                    {ReplicaSetObject("web-rs", <<OwnerReference("Deployment", "web")>>)}},
     deployments : {{}, {Controller("web", 1, 2, {"app=web"})}},
     statefulsets : {{}, {Controller("web", 1, 1, {"app=web"})}},
     daemonsets : {{}, {Controller("web", 2, 3, {"app=web"})}},
     jobs : {{}, {JobObject("web", 0, Nil)}, {JobObject("web", 1, Ptr(2))}}]

Options(name, type, namespace, allNamespaces, selector) ==
    [ResourceName |-> name, ResourceType |-> type, Namespace |-> namespace,
     AllNamespaces |-> allNamespaces, Selector |-> selector]

ResolverOptions ==
    {Options("web", "", "ns1", FALSE, NoSelector),
     Options("", "", "ns1", FALSE, LabelSelector("tier=be")),
     Options("", "", "", TRUE, LabelSelector("tier=be")),
     Options("", "", "ns1", FALSE, LabelSelector("app=none")),
     Options("", "", "ns1", FALSE, InvalidSelector)}

(***************************************************************************)
(* SpecResolve: Resolver.Resolve applied to one cluster                    *)
(***************************************************************************)
InitResolve ==
    /\ now = InitialNow
    /\ pc = "resolve"
    /\ arg = NoValue
    /\ out = NoValue
    /\ cluster \in ResolverClusters
    /\ options \in ResolverOptions
    /\ workloads = <<>>
    /\ err = Nil
    /\ wi = 0
    /\ pj = 0
    /\ frame = NoValue
    /\ tasks = <<>>
    /\ results = <<>>
    /\ ret = NoValue

ResolveCall ==
    /\ pc = "resolve"
    /\ \E r \in Resolve(cluster, options) : out' = r
    /\ pc' = "resolve_done"
    /\ UNCHANGED <<now, arg, command>>

NextResolve == ResolveCall

SpecResolve == InitResolve /\ [][NextResolve]_vars

KindPriority == <<"Pod", "Deployment", "StatefulSet", "DaemonSet", "Job">>

ObjectsOfKind(c, kind) ==
    CASE kind = "Pod" -> PodSet(c)
      [] kind = "Deployment" -> c.deployments
      [] kind = "StatefulSet" -> c.statefulsets
      [] kind = "DaemonSet" -> c.daemonsets
      [] kind = "Job" -> c.jobs

\* the kinds under which a name exists in a namespace
KindsOfName(c, namespace, name) ==
    {KindPriority[i] : i \in {j \in DOMAIN KindPriority :
        \E o \in ObjectsOfKind(c, KindPriority[j]) :
            o.Namespace = namespace /\ o.Name = name}}

HighestPriority(S) ==
    KindPriority[CHOOSE i \in DOMAIN KindPriority :
        /\ KindPriority[i] \in S
        /\ \A j \in DOMAIN KindPriority : KindPriority[j] \in S => i <= j]

BareName(opts) ==
    opts.Selector.Raw = "" /\ opts.ResourceName # "" /\ opts.ResourceType = ""

\* C5: for a bare name that exists under the set S of kinds, Resolve returns
\* exactly one workload, of the highest-priority kind of S in the order
\* Pod > Deployment > StatefulSet > DaemonSet > Job (a Pod with replicas
\* "1/1"); when S is empty it fails with the error naming the five kinds.
C5_AutoDetectPriority ==
    (pc = "resolve_done" /\ BareName(options)) =>
        LET S == KindsOfName(cluster, options.Namespace, options.ResourceName)
        IN  IF S = {}
            THEN /\ ~out.panic
                 /\ out.err # Nil
                 /\ out.err[1].msg =
                        "not found as Pod, Deployment, StatefulSet, DaemonSet, or Job"
                 /\ out.workloads = <<>>
            ELSE /\ ~out.panic
                 /\ out.err = Nil
                 /\ Len(out.workloads) = 1
                 /\ out.workloads[1].Kind = HighestPriority(S)
                 /\ out.workloads[1].Name = options.ResourceName
                 /\ (out.workloads[1].Kind = "Pod" => out.workloads[1].Replicas = "1/1")

\* the first owner reference of a pod that resolves to a workload, as
\* <<kind, namespace, name>>; the pod itself when none does
ResolvableOwner(c, pod, owner) ==
    \/ owner.Kind \in {"StatefulSet", "DaemonSet", "Job"}
    \/ /\ owner.Kind = "ReplicaSet"
       /\ \E rs \in c.replicasets :
            /\ rs.Namespace = pod.Namespace
            /\ rs.Name = owner.Name
            /\ \E k \in DOMAIN rs.OwnerReferences : rs.OwnerReferences[k].Kind = "Deployment"

OwnerIdentity(c, pod) ==
    LET idx == {i \in DOMAIN pod.OwnerReferences :
                    ResolvableOwner(c, pod, pod.OwnerReferences[i])}
    IN  IF idx = {} THEN <<"Pod", pod.Namespace, pod.Name>>
        ELSE LET first == CHOOSE i \in idx : \A j \in idx : i <= j
                 owner == pod.OwnerReferences[first]
             IN  IF owner.Kind = "ReplicaSet"
                 THEN LET rs == CHOOSE r \in c.replicasets :
                                    r.Namespace = pod.Namespace /\ r.Name = owner.Name
                          d == CHOOSE k \in DOMAIN rs.OwnerReferences :
                                   /\ rs.OwnerReferences[k].Kind = "Deployment"
                                   /\ \A m \in DOMAIN rs.OwnerReferences :
                                        rs.OwnerReferences[m].Kind = "Deployment" => k <= m
                      IN  <<"Deployment", pod.Namespace, rs.OwnerReferences[d].Name>>
                 ELSE <<owner.Kind, pod.Namespace, owner.Name>>

MatchedPods(c, opts) ==
    {p \in PodSet(c) : /\ (opts.AllNamespaces \/ p.Namespace = opts.Namespace)
                       /\ opts.Selector.Requirements \subseteq p.Labels}

WorkloadIdentity(w) == <<w.Kind, w.Namespace, w.Name>>

BySelector(opts) == opts.Selector.Raw # "" /\ opts.Selector.Valid

\* C6: selector-based resolution returns exactly one workload per distinct
\* (kind, namespace, name) of the matched pods' resolved owners plus one
\* standalone Pod workload per pod without a resolvable owner, none twice;
\* with no matched pod it returns an error naming the selector.
C6_SelectorGrouping ==
    (pc = "resolve_done" /\ BySelector(options)) =>
        LET matched == MatchedPods(cluster, options)
        IN  IF matched = {}
            THEN /\ out.err # Nil
                 /\ out.err[1] = [msg |-> "no pods found matching selector",
                                  arg |-> options.Selector.Raw]
                 /\ out.workloads = <<>>
            ELSE /\ out.err = Nil
                 /\ ~out.panic
                 /\ \A i, j \in DOMAIN out.workloads :
                        i # j => WorkloadIdentity(out.workloads[i])
                                    # WorkloadIdentity(out.workloads[j])
                 /\ {WorkloadIdentity(out.workloads[i]) : i \in DOMAIN out.workloads}
                        = {OwnerIdentity(cluster, p) : p \in matched}
                 /\ \A i \in DOMAIN out.workloads :
                        out.workloads[i].Kind = "Pod" => out.workloads[i].Replicas = "1/1"

\* pods of two namespaces owned by StatefulSets of the same name stay two
\* workloads, while the two pods of one Deployment collapse into one
C6_Witness ==
    /\ pc = "resolve_done"
    /\ BySelector(options)
    /\ options.AllNamespaces
    /\ Cardinality(MatchedPods(cluster, options)) = 4
    /\ \E p, q \in MatchedPods(cluster, options) :
            p.Namespace # q.Namespace /\ p.Name = q.Name
    /\ \E p, q \in MatchedPods(cluster, options) :
            p.Name # q.Name /\ OwnerIdentity(cluster, p) = OwnerIdentity(cluster, q)
    /\ Len(out.workloads) = 3

(***************************************************************************)
(* pkg/collector: quantities                                               *)
(*                                                                         *)
(* A resource.Quantity is an integer: millicores for CPU, Ki for memory.   *)
(* A quantity string is the empty string <<>> or <<[unit, n, d]>>, the     *)
(* text that writes the number n/d followed by the unit.                   *)
(***************************************************************************)
EmptyString == <<>>
Text(unit, n, d) == <<[unit |-> unit, n |-> n, d |-> d]>>

Ki == 1
Mi == 1024
Gi == 1048576

\* a / b rounded to the nearest integer, as %.0f and %.1f round; the inputs
\* below hold no value that lies exactly between two roundings
RoundDiv(a, b) == (2 * a + b) \div (2 * b)

\* Quantity.String() of a CPU quantity, and of a memory quantity
CPUString(milli) == Text("m", milli, 1)
MemoryString(ki) == Text("Ki", ki, 1)

\* resource.ParseQuantity(...).MilliValue(): the text as millicores
MilliValue(text) ==
    IF text[1].unit = "m" THEN text[1].n \div text[1].d
    ELSE (text[1].n * 1000) \div text[1].d

\* resource.ParseQuantity(...).Value(): the text as Ki
Value(text) ==
    CASE text[1].unit = "Gi" -> (text[1].n * Gi) \div text[1].d
      [] text[1].unit = "Mi" -> (text[1].n * Mi) \div text[1].d
      [] OTHER -> text[1].n \div text[1].d

formatCPUUsage(usage) ==
    LET milliCPU == MilliValue(usage)
    IN  IF milliCPU >= 1000
        THEN IF milliCPU >= 10000
             THEN Text("", RoundDiv(milliCPU, 1000), 1)
             ELSE Text("", RoundDiv(milliCPU, 100), 10)
        ELSE Text("m", milliCPU, 1)

formatMemoryUsage(usage) ==
    LET bytes == Value(usage)
    IN  IF bytes >= Gi THEN Text("Gi", RoundDiv(bytes * 10, Gi), 10)
        ELSE IF bytes >= Mi THEN Text("Mi", bytes \div Mi, 1)
        ELSE IF bytes >= Ki THEN Text("Ki", bytes \div Ki, 1)
        ELSE Text("", bytes, 1)

calculateCPUPercentage_NoZeroGuard(usage, limit) ==
    Pct(MilliValue(usage) * 100, MilliValue(limit))
calculateCPUPercentage(usage, limit) ==
    LET usageMilliCPU == MilliValue(usage)
        limitMilliCPU == MilliValue(limit)
    IN  IF limitMilliCPU = 0 THEN PctZero
        ELSE Pct(usageMilliCPU * 100, limitMilliCPU)

calculateMemoryPercentage(usage, limit) ==
    LET usageBytes == Value(usage)
        limitBytes == Value(limit)
    IN  IF limitBytes = 0 THEN PctZero
        ELSE Pct(usageBytes * 100, limitBytes)

(***************************************************************************)
(* pkg/collector: one container                                            *)
(***************************************************************************)
\* ResourceList.Cpu() / Memory(): the zero quantity when the entry is absent
QuantityOrZero(q) == IF q = Nil THEN 0 ELSE q[1]

findContainerMetrics(podMetrics, containerName) ==
    IF podMetrics = Nil THEN Nil
    ELSE IF containerName \in DOMAIN podMetrics[1].Containers
    THEN Ptr(podMetrics[1].Containers[containerName])
    ELSE Nil

collectResourceInfo(container, containerName, podMetrics) ==
    LET CPULimit == IF container.Limits # Nil
                    THEN formatCPUUsage(CPUString(QuantityOrZero(container.Limits[1].cpu)))
                    ELSE EmptyString
        MemLimit == IF container.Limits # Nil
                    THEN formatMemoryUsage(MemoryString(QuantityOrZero(container.Limits[1].memory)))
                    ELSE EmptyString
        containerMetrics == findContainerMetrics(podMetrics, containerName)
        haveCPU == containerMetrics # Nil /\ containerMetrics[1].CPUUsage # EmptyString
        haveMem == containerMetrics # Nil /\ containerMetrics[1].MemoryUsage # EmptyString
    IN  [CPULimit |-> CPULimit,
         MemLimit |-> MemLimit,
         CPUUsage |-> IF haveCPU THEN formatCPUUsage(containerMetrics[1].CPUUsage)
                      ELSE Text("m", 0, 1),
         CPUPercentage |-> IF haveCPU /\ CPULimit # EmptyString
                           THEN calculateCPUPercentage(containerMetrics[1].CPUUsage, CPULimit)
                           ELSE PctZero,
         MemUsage |-> IF haveMem THEN formatMemoryUsage(containerMetrics[1].MemoryUsage)
                      ELSE Text("Mi", 0, 1),
         MemPercentage |-> IF haveMem /\ MemLimit # EmptyString
                           THEN calculateMemoryPercentage(containerMetrics[1].MemoryUsage, MemLimit)
                           ELSE PctZero]

(***************************************************************************)
(* SpecResources: collectResourceInfo applied to one container             *)
(***************************************************************************)
\* declared limits: millicores, and Ki of memory
CPULimitValues == {0, 500, 1230, 1500, 12300}
MemLimitValues == {0, 256 * Mi, 1536 * Ki, 1300 * Mi, 1536 * Mi}

LimitValues ==
    {Nil} \cup {Ptr([cpu |-> cpu, memory |-> memory]) :
                    cpu \in {Nil} \cup {Ptr(v) : v \in CPULimitValues},
                    memory \in {Nil} \cup {Ptr(v) : v \in MemLimitValues}}

CPUUsageValues == {EmptyString, CPUString(250), CPUString(1100)}
MemUsageValues == {EmptyString, MemoryString(1200 * Ki), MemoryString(1000 * Mi)}

PodMetricsValues ==
    {Nil} \cup {Ptr([Containers |-> [name \in {n} |-> [CPUUsage |-> cpu, MemoryUsage |-> memory]]]) :
                    n \in {"app", "sidecar"}, cpu \in CPUUsageValues, memory \in MemUsageValues}

ResourceInputs ==
    [container : {[Name |-> "app", Limits |-> limits] : limits \in LimitValues},
     containerName : {"app"},
     podMetrics : PodMetricsValues]

InitResources ==
    /\ now = InitialNow
    /\ pc = "resources"
    /\ arg \in ResourceInputs
    /\ out = NoValue
    /\ NoCommand

CollectResources ==
    /\ pc = "resources"
    /\ out' = collectResourceInfo(arg.container, arg.containerName, arg.podMetrics)
    /\ pc' = "resources_done"
    /\ UNCHANGED <<now, arg, command>>

NextResources == CollectResources

SpecResources == InitResources /\ [][NextResources]_vars

\* the usage the metrics hold for the container, in millicores and in Ki;
\* Nil when there is none
UsageOf(field) ==
    IF arg.podMetrics = Nil THEN Nil
    ELSE IF arg.containerName \notin DOMAIN arg.podMetrics[1].Containers THEN Nil
    ELSE IF arg.podMetrics[1].Containers[arg.containerName][field] = EmptyString THEN Nil
    ELSE Ptr(arg.podMetrics[1].Containers[arg.containerName][field][1].n)

\* the limit the container spec declares; 0 when it declares none
DeclaredLimit(resource) ==
    IF arg.container.Limits = Nil THEN 0
    ELSE IF arg.container.Limits[1][resource] = Nil THEN 0
    ELSE arg.container.Limits[1][resource][1]

\* C14: with a usage value and an absent or zero limit the percentage is
\* exactly 0, and no percentage is ever a division by zero.
C14_ZeroLimitGuard ==
    pc = "resources_done" =>
        /\ out.CPUPercentage.d # 0
        /\ out.MemPercentage.d # 0
        /\ (UsageOf("CPUUsage") # Nil /\ DeclaredLimit("cpu") = 0) =>
                out.CPUPercentage = PctZero
        /\ (UsageOf("MemoryUsage") # Nil /\ DeclaredLimit("memory") = 0) =>
                out.MemPercentage = PctZero

\* usage for both resources, a limits list that declares a zero CPU limit and
\* no memory limit
C14_Witness ==
    /\ pc = "resources_done"
    /\ UsageOf("CPUUsage") # Nil
    /\ UsageOf("MemoryUsage") # Nil
    /\ arg.container.Limits # Nil
    /\ arg.container.Limits[1].cpu = Ptr(0)
    /\ arg.container.Limits[1].memory = Nil
    /\ out.CPULimit # EmptyString
    /\ out.CPUPercentage = PctZero
    /\ out.MemPercentage = PctZero

GCD(a, b) ==
    LET RECURSIVE gcd(_, _)
        gcd(x, y) == IF y = 0 THEN x ELSE gcd(y, x % y)
    IN  gcd(a, b)

\* a fraction in lowest terms
Lowest(p) == [n |-> p.n \div GCD(p.n, p.d), d |-> p.d \div GCD(p.n, p.d)]

\* C15: with a metrics entry and a non-zero declared limit, the percentage is
\* usage / declared limit * 100, for the limit as the container spec declares it.
C15_PercentOfDeclaredLimit ==
    pc = "resources_done" =>
        /\ (UsageOf("CPUUsage") # Nil /\ DeclaredLimit("cpu") # 0) =>
                Lowest(out.CPUPercentage)
                    = Lowest(Pct(UsageOf("CPUUsage")[1] * 100, DeclaredLimit("cpu")))
        /\ (UsageOf("MemoryUsage") # Nil /\ DeclaredLimit("memory") # 0) =>
                Lowest(out.MemPercentage)
                    = Lowest(Pct(UsageOf("MemoryUsage")[1] * 100, DeclaredLimit("memory")))

(***************************************************************************)
(* pkg/collector: environment variables                                    *)
(***************************************************************************)
LowerLetters == "abcdefghijklmnopqrstuvwxyz"
UpperLetters == "ABCDEFGHIJKLMNOPQRSTUVWXYZ"

\* the upper-case letter of each lower-case letter
UpperCase ==
    [c \in {SubSeq(LowerLetters, i, i) : i \in 1..Len(LowerLetters)} |->
        LET i == CHOOSE i \in 1..Len(LowerLetters) : SubSeq(LowerLetters, i, i) = c
        IN  SubSeq(UpperLetters, i, i)]

\* strings.ToUpper
ToUpper(name) ==
    LET RECURSIVE convert(_)
        convert(k) ==
            IF k > Len(name) THEN ""
            ELSE LET c == SubSeq(name, k, k)
                 IN  (IF c \in DOMAIN UpperCase THEN UpperCase[c] ELSE c) \o convert(k + 1)
    IN  convert(1)

sensitivePatterns == {"PASSWORD", "SECRET", "KEY", "TOKEN", "PASS"}

isSensitiveEnvVar_CaseSensitive(name) ==
    \E pattern \in sensitivePatterns : Contains(name, pattern)
isSensitiveEnvVar(name) ==
    \E pattern \in sensitivePatterns : Contains(ToUpper(name), pattern)

\* the value of the pod field a fieldRef names
fieldRefValue(fieldPath, pod) ==
    CASE fieldPath = "metadata.name" -> pod.Name
      [] fieldPath = "metadata.namespace" -> pod.Namespace
      [] fieldPath \in {"metadata.uid", "spec.nodeName", "spec.serviceAccountName",
                        "status.hostIP", "status.podIP"} -> "<" \o fieldPath \o ">"
      [] OTHER -> "[fieldRef:" \o fieldPath \o "]"

\* the EnvVar built for one entry of container.Env
envVarOf(env, pod) ==
    LET fromRef == env.Value = "" /\ env.ValueFrom # Nil
        from == env.ValueFrom[1]
        value ==
            IF ~fromRef THEN env.Value
            ELSE IF from.FieldRef # Nil THEN fieldRefValue(from.FieldRef[1], pod)
            ELSE IF from.SecretKeyRef # Nil
            THEN "[secret:" \o from.SecretKeyRef[1].Name \o "/" \o from.SecretKeyRef[1].Key \o "]"
            ELSE IF from.ConfigMapKeyRef # Nil
            THEN "[configMap:" \o from.ConfigMapKeyRef[1].Name \o "/"
                    \o from.ConfigMapKeyRef[1].Key \o "]"
            ELSE IF from.ResourceFieldRef # Nil
            THEN "[resource:" \o from.ResourceFieldRef[1] \o "]"
            ELSE "[valueFrom:unknown]"
        masked ==
            \/ isSensitiveEnvVar(env.Name)
            \/ fromRef /\ from.FieldRef = Nil /\ from.SecretKeyRef # Nil
    IN  [Name |-> env.Name,
         Value |-> IF masked THEN "***" ELSE value,
         Masked |-> masked]

collectEnvironmentInfo(container, pod) ==
    [i \in DOMAIN container.Env |-> envVarOf(container.Env[i], pod)]

(***************************************************************************)
(* SpecEnv: collectEnvironmentInfo applied to one container                *)
(***************************************************************************)
NoValueFrom == [FieldRef |-> Nil, SecretKeyRef |-> Nil, ConfigMapKeyRef |-> Nil,
                ResourceFieldRef |-> Nil]

KeyRef(name, key) == [Name |-> name, Key |-> key]

\* the API server accepts a literal value, or a valueFrom with one source
EnvSources ==
    {[Value |-> "hunter2", ValueFrom |-> Nil],
     [Value |-> "", ValueFrom |-> Nil],
     [Value |-> "", ValueFrom |-> Ptr([NoValueFrom EXCEPT !.FieldRef = Ptr("metadata.name")])],
     [Value |-> "", ValueFrom |-> Ptr([NoValueFrom EXCEPT !.FieldRef = Ptr("status.podIP")])],
     [Value |-> "", ValueFrom |-> Ptr([NoValueFrom EXCEPT !.FieldRef = Ptr("metadata.labels")])],
     [Value |-> "", ValueFrom |-> Ptr([NoValueFrom EXCEPT !.SecretKeyRef = Ptr(KeyRef("db", "pw"))])],
     [Value |-> "", ValueFrom |-> Ptr([NoValueFrom EXCEPT !.ConfigMapKeyRef = Ptr(KeyRef("cfg", "url"))])],
     [Value |-> "", ValueFrom |-> Ptr([NoValueFrom EXCEPT !.ResourceFieldRef = Ptr("limits.cpu")])],
     [Value |-> "", ValueFrom |-> Ptr(NoValueFrom)]}

EnvNames == {"DB_PASSWORD", "db_password", "ApiKey", "auth_Token", "bypass", "LOG_LEVEL", "PATH"}

EnvValues ==
    {[Name |-> name, Value |-> source.Value, ValueFrom |-> source.ValueFrom] :
        name \in EnvNames, source \in EnvSources}

EnvInputs ==
    [container : {[Name |-> "app", Env |-> env] : env \in SeqsUpTo(EnvValues, MaxEnvVars)},
     pod : {[Name |-> "p1", Namespace |-> "ns1"]}]

InitEnv ==
    /\ now = InitialNow
    /\ pc = "env"
    /\ arg \in EnvInputs
    /\ out = NoValue
    /\ NoCommand

CollectEnv ==
    /\ pc = "env"
    /\ out' = collectEnvironmentInfo(arg.container, arg.pod)
    /\ pc' = "env_done"
    /\ UNCHANGED <<now, arg, command>>

NextEnv == CollectEnv

SpecEnv == InitEnv /\ [][NextEnv]_vars

\* the name holds one of the sensitive words, in any case; written out per
\* name, not computed by the collector's conversion
SensitiveName(name) == name \in {"DB_PASSWORD", "db_password", "ApiKey", "auth_Token", "bypass"}

FromSecret(env) == env.Value = "" /\ env.ValueFrom # Nil /\ env.ValueFrom[1].SecretKeyRef # Nil

\* C17: a variable with a sensitive name, or whose value comes from a secret
\* key reference, is Masked with Value "***"; its raw value or secret
\* reference is not in the collected variable.
C17_SensitiveMasked ==
    pc = "env_done" =>
        /\ Len(out) = Len(arg.container.Env)
        /\ \A i \in DOMAIN out :
              /\ out[i].Name = arg.container.Env[i].Name
              /\ (SensitiveName(arg.container.Env[i].Name) \/ FromSecret(arg.container.Env[i])) =>
                    /\ out[i].Masked
                    /\ out[i].Value = "***"

\* a lower-case sensitive name with a literal value, and a harmless name fed
\* from a secret
C17_Witness ==
    /\ pc = "env_done"
    /\ Len(out) = MaxEnvVars
    /\ arg.container.Env[1].Name = "db_password"
    /\ arg.container.Env[1].Value = "hunter2"
    /\ arg.container.Env[2].Name = "LOG_LEVEL"
    /\ FromSecret(arg.container.Env[2])
    /\ out[1] = [Name |-> "db_password", Value |-> "***", Masked |-> TRUE]
    /\ out[2] = [Name |-> "LOG_LEVEL", Value |-> "***", Masked |-> TRUE]

\* the readiness result mirrors the Ready flag of the status entry; a
\* liveness probe is assumed to pass
collectProbeInfo(container, status) ==
    [Liveness |-> IF container.LivenessProbe THEN ProbeDetails(TRUE, TRUE)
                  ELSE ProbeDetails(FALSE, FALSE),
     Readiness |-> IF container.ReadinessProbe
                   THEN ProbeDetails(TRUE, IF status # Nil THEN status[1].Ready ELSE FALSE)
                   ELSE ProbeDetails(FALSE, FALSE)]

\* collectContainerLogs: the lines of the log stream, Nil when it fails
collectContainerLogs(container) == container.Log

collectContainerInfo(container, pod, containerType, opts, podMetrics, needsDetailedInfo) ==
    LET containerStatus == container.Status
        st == containerStatus[1]
        running == containerStatus # Nil /\ st.State.Kind = "Running"
        waiting == containerStatus # Nil /\ st.State.Kind = "Waiting"
        terminated == containerStatus # Nil /\ st.State.Kind = "Terminated"
        status ==
            IF containerStatus = Nil THEN ContainerStatusUnknown
            ELSE IF running THEN ContainerStatusRunning
            ELSE IF waiting
            THEN IF st.State.Reason = "" THEN ContainerStatusWaiting ELSE st.State.Reason
            ELSE IF terminated
            THEN IF containerType = ContainerTypeInit /\ st.State.ExitCode = 0
                 THEN ContainerStatusCompleted
                 ELSE ContainerStatusTerminated
            ELSE ""
        exitCode ==
            IF terminated THEN Ptr(st.State.ExitCode)
            ELSE IF containerStatus # Nil /\ st.LastTerminationState.Kind = "Terminated"
            THEN Ptr(st.LastTerminationState.ExitCode)
            ELSE Nil
        logs == IF opts.ShowLogs /\ status = ContainerStatusRunning
                THEN collectContainerLogs(container) ELSE Nil
    IN  [Name |-> container.Name,
         Type |-> containerType,
         Status |-> status,
         Ready |-> containerStatus # Nil /\ st.Ready,
         RestartCount |-> IF containerStatus # Nil THEN st.RestartCount ELSE 0,
         ExitCode |-> exitCode,
         StartedAt |-> IF running \/ terminated THEN Ptr(st.State.StartedAt) ELSE Nil,
         TerminationReason |-> IF terminated THEN st.State.Reason ELSE "",
         LastState |-> IF containerStatus = Nil THEN ""
                       ELSE IF st.LastTerminationState.Kind \in {"Terminated", "Waiting"}
                       THEN st.LastTerminationState.Kind
                       ELSE "None",
         LastStateReason |-> IF containerStatus = Nil THEN ""
                             ELSE IF st.LastTerminationState.Kind \in {"Terminated", "Waiting"}
                             THEN st.LastTerminationState.Reason
                             ELSE "",
         Resources |-> collectResourceInfo(container, container.Name, podMetrics),
         Probes |-> collectProbeInfo(container, containerStatus),
         Environment |-> IF needsDetailedInfo /\ opts.ShowEnv
                         THEN collectEnvironmentInfo(container, pod) ELSE <<>>,
         Logs |-> IF logs = Nil THEN <<>> ELSE logs[1]]

(***************************************************************************)
(* pkg/collector: one pod, and the bulk calls                              *)
(***************************************************************************)
Map(f(_), seq) == [i \in DOMAIN seq |-> f(seq[i])]

\* the status collectPodInfoWithData determines: the terminating state is
\* checked first
podStatus_PhaseOnly(pod) == pod.Phase
podStatus(pod) ==
    IF pod.DeletionTimestamp # Nil THEN "Terminating" ELSE pod.Phase

\* collectPodInfoWithData; it has no failing path, its error is always nil
collectPodInfoWithData_OnlyNamed(pod, opts, podMetrics, podEvents) ==
    LET status == podStatus(pod)
        named(container) ==
            opts.ContainerName = "" \/ container.Name = opts.ContainerName
        needsDetailedInfo == opts.SinglePodView \/ opts.Wide \/ opts.ShowEnv
        initInfo(container) ==
            collectContainerInfo(container, pod, ContainerTypeInit, opts, podMetrics,
                                 needsDetailedInfo)
        standardInfo(container) ==
            collectContainerInfo(container, pod, ContainerTypeStandard, opts, podMetrics,
                                 needsDetailedInfo)
    IN  [Name |-> pod.Name,
         Namespace |-> pod.Namespace,
         Status |-> status,
         Metrics |-> podMetrics,
         Events |-> podEvents,
         Labels |-> pod.Labels,
         InitContainers |-> Map(initInfo, SelectSeq(pod.InitContainers, named)),
         Containers |-> Map(standardInfo, SelectSeq(pod.Containers, named)),
         Health |-> HealthStatus("", "", 0)]
collectPodInfoWithData(pod, opts, podMetrics, podEvents) ==
    LET status == podStatus(pod)
        needsDetailedInfo == opts.SinglePodView \/ opts.Wide \/ opts.ShowEnv
        initInfo(container) ==
            collectContainerInfo(container, pod, ContainerTypeInit, opts, podMetrics,
                                 needsDetailedInfo)
        standardInfo(container) ==
            collectContainerInfo(container, pod, ContainerTypeStandard, opts, podMetrics,
                                 needsDetailedInfo)
    IN  [Name |-> pod.Name,
         Namespace |-> pod.Namespace,
         Status |-> status,
         Metrics |-> podMetrics,
         Events |-> podEvents,
         Labels |-> pod.Labels,
         InitContainers |-> Map(initInfo, pod.InitContainers),
         Containers |-> Map(standardInfo, pod.Containers),
         Health |-> HealthStatus("", "", 0)]

\* one entry of PodMetricses(namespace).List turned into types.PodMetrics
podMetricsOf(pod) ==
    [Containers |->
        [name \in DOMAIN pod.Metrics[1] |->
            [CPUUsage |-> CPUString(pod.Metrics[1][name].cpu),
             MemoryUsage |-> MemoryString(pod.Metrics[1][name].memory)]]]

\* collectBulkMetrics: [metrics, err]; metrics is Nil (a nil map) on error
collectBulkMetrics_IgnoreError(c, namespace) ==
    LET measured == {p \in PodSet(c) : p.Namespace = namespace /\ p.Metrics # Nil}
    IN  [metrics |-> Ptr([name \in {p.Name : p \in measured} |->
                             podMetricsOf(CHOOSE p \in measured : p.Name = name)]),
         err |-> Nil]
collectBulkMetrics(c, namespace) ==
    IF c.metrics = "no client"
    THEN [metrics |-> Nil, err |-> Ptr("metrics client not available")]
    ELSE IF c.metrics = "error"
    THEN [metrics |-> Nil, err |-> Ptr("metrics list failed")]
    ELSE LET measured == {p \in PodSet(c) : p.Namespace = namespace /\ p.Metrics # Nil}
         IN  [metrics |-> Ptr([name \in {p.Name : p \in measured} |->
                                  podMetricsOf(CHOOSE p \in measured : p.Name = name)]),
              err |-> Nil]

EventsHour == 60
EventsBrief == 5

\* the timestamp collectBulkEvents takes for an event; Nil is the zero time
effectiveTime(event) ==
    IF event.EventTime # Nil
    THEN IF event.Series # Nil /\ event.Series[1].LastObservedTime # Nil
         THEN event.Series[1].LastObservedTime
         ELSE event.EventTime
    ELSE IF event.LastTimestamp # Nil THEN event.LastTimestamp
    ELSE event.FirstTimestamp

\* collectBulkEvents: [events, err]; events maps a pod name to its events
collectBulkEvents(c, namespace, pods, opts, clock) ==
    IF c.eventsFail
    THEN [events |-> Nil, err |-> Ptr("events list failed")]
    ELSE LET podNames == {pods[i].Name : i \in DOMAIN pods}
             cutoffTime == IF opts.ShowEvents THEN clock - EventsHour
                           ELSE clock - EventsBrief
             kept(event) ==
                 /\ event.Namespace = namespace
                 /\ event.InvolvedObject \in podNames
                 /\ effectiveTime(event) # Nil
                 /\ effectiveTime(event)[1] > cutoffTime
             info(event) ==
                 [Time |-> effectiveTime(event)[1], Type |-> event.Type,
                  Reason |-> event.Reason, PodName |-> event.InvolvedObject]
             selected == SelectSeq(c.events, kept)
             named == {selected[i].InvolvedObject : i \in DOMAIN selected}
         IN  [events |-> Ptr([name \in named |->
                                 Map(info, SelectSeq(selected,
                                        LAMBDA e : e.InvolvedObject = name))]),
              err |-> Nil]

(***************************************************************************)
(* pkg/analyzer: workload health; pkg/cmd: the problematic filter          *)
(***************************************************************************)
SumScores(healths) ==
    LET RECURSIVE sum(_)
        sum(i) == IF i = 0 THEN 0 ELSE healths[i].Score + sum(i - 1)
    IN  sum(Len(healths))

Plural(n, one, many) == IF n = 1 THEN "1 " \o one ELSE ToString(n) \o " " \o many

\* the result of AnalyzeWorkloadHealth for the healths of the workload's pods
summarize(podHealths) ==
    LET totalScore == SumScores(podHealths)
        criticalIssues == Cardinality({i \in DOMAIN podHealths :
                              podHealths[i].Level = HealthLevelCritical})
        degradedIssues == Cardinality({i \in DOMAIN podHealths :
                              podHealths[i].Level = HealthLevelDegraded})
        averageScore == totalScore \div Len(podHealths)
    IN  IF criticalIssues > 0
        THEN HealthStatus(HealthLevelCritical,
                 Plural(criticalIssues, "pod has critical issues",
                        "pods have critical issues"), averageScore)
        ELSE IF degradedIssues > 0
        THEN HealthStatus(HealthLevelDegraded,
                 Plural(degradedIssues, "pod has issues", "pods have issues"),
                 averageScore)
        ELSE HealthStatus(HealthLevelHealthy, "all pods running normally",
                          averageScore)

\* AnalyzeWorkloadHealth analyzes every pod again, at its own clock reading
AnalyzeWorkloadHealth(workload, clock) ==
    IF Len(workload.Pods) = 0
    THEN HealthStatus(HealthLevelCritical, "no pods found", 0)
    ELSE summarize([i \in DOMAIN workload.Pods |->
                       AnalyzePodHealth(workload.Pods[i], clock)])

isPodProblematic_NoPending(pod) ==
    pod.Status \in {"Terminating", "Failed", "Unknown"}
isPodProblematic(pod) ==
    pod.Status \in {"Terminating", "Failed", "Unknown", "Pending"}

podHasProblems(pod) ==
    \/ isPodProblematic(pod)
    \/ \E i \in DOMAIN AllContainers(pod) : isContainerProblematic(AllContainers(pod)[i])

filterProblematicWorkloads(ws) ==
    LET kept(workload) == [workload EXCEPT !.Pods = SelectSeq(@, podHasProblems)]
        hasProblems(workload) == \E i \in DOMAIN workload.Pods : podHasProblems(workload.Pods[i])
    IN  Map(kept, SelectSeq(ws, hasProblems))

(***************************************************************************)
(* SpecFilter: filterProblematicWorkloads applied to a list of workloads   *)
(***************************************************************************)
FilterPod(status, init, containers) ==
    [Name |-> "p", Namespace |-> "ns1", Status |-> status,
     InitContainers |-> init, Containers |-> containers,
     Health |-> HealthStatus(HealthLevelHealthy, "all containers healthy", 100)]

InitCompleted == SampleContainer(ContainerTypeInit, ContainerStatusTerminated, 0, Ptr(0), Pct(0, 1))
InitFailed == SampleContainer(ContainerTypeInit, "Error", 0, Nil, Pct(0, 1))
StandardQuiet == SampleContainer(ContainerTypeStandard, ContainerStatusRunning, 0, Nil, Pct(50, 1))
StandardRestarted ==
    SampleContainer(ContainerTypeStandard, ContainerStatusRunning, MaxRestarts, Nil, Pct(50, 1))

FilterPodValues ==
    {FilterPod(status, <<InitCompleted>>, <<StandardQuiet>>) :
        status \in {"Running", "Succeeded", "Terminating", "Failed", "Unknown", "Pending"}}
    \cup {FilterPod("Running", <<InitFailed>>, <<StandardQuiet>>),
          FilterPod("Running", <<>>, <<StandardQuiet, StandardRestarted>>)}

\* pods and workloads are named by their position in the input
FilterWorkload(pods) ==
    [WorkloadInfo("w", "Deployment", "ns1", Replicas(Len(pods), Len(pods)), {}, {"app=w"})
        EXCEPT !.Pods = [i \in DOMAIN pods |-> [pods[i] EXCEPT !.Name = "p" \o ToString(i)]],
               !.Health = HealthStatus(HealthLevelDegraded, "1 pod has issues", 92)]

\* the pod lists of a workload: no pod, one pod of every kind, and lists that
\* mix pods to keep with pods to drop
FilterPodLists ==
    SeqsUpTo(FilterPodValues, 1)
    \cup {<<FilterPod(first, <<InitCompleted>>, <<StandardQuiet>>),
            FilterPod(second, <<InitCompleted>>, <<StandardQuiet>>)>> :
            first \in {"Running", "Pending"},
            second \in {"Running", "Pending", "Succeeded"}}
    \cup {<<FilterPod("Running", <<>>, <<StandardQuiet>>),
            FilterPod("Running", <<>>, <<StandardQuiet, StandardRestarted>>),
            FilterPod("Running", <<InitCompleted>>, <<StandardQuiet>>)>>,
          <<FilterPod("Terminating", <<>>, <<StandardQuiet>>),
            FilterPod("Running", <<InitCompleted>>, <<StandardQuiet>>),
            FilterPod("Running", <<InitFailed>>, <<StandardQuiet>>)>>}

FilterInputs ==
    {[i \in DOMAIN podLists |->
            [FilterWorkload(podLists[i]) EXCEPT !.Name = "w" \o ToString(i)]] :
        podLists \in SeqsUpTo(FilterPodLists, MaxFilterWorkloads)}

InitFilter ==
    /\ now = InitialNow
    /\ pc = "filter_workloads"
    /\ arg \in FilterInputs
    /\ out = NoValue
    /\ NoCommand

FilterWorkloads ==
    /\ pc = "filter_workloads"
    /\ out' = filterProblematicWorkloads(arg)
    /\ pc' = "filter_workloads_done"
    /\ UNCHANGED <<now, arg, command>>

NextFilter == FilterWorkloads

SpecFilter == InitFilter /\ [][NextFilter]_vars

\* the pod is to be kept: a problematic status, or a problematic container
\* among its init and standard containers
KeepPod(pod) ==
    \/ pod.Status \in {"Terminating", "Failed", "Unknown", "Pending"}
    \/ \E i \in DOMAIN pod.InitContainers : isContainerProblematic(pod.InitContainers[i])
    \/ \E i \in DOMAIN pod.Containers : isContainerProblematic(pod.Containers[i])

\* the k-th smallest member of a set of positions
Nth(positions, k) ==
    CHOOSE i \in positions : Cardinality({j \in positions : j < i}) = k - 1

KeptPods(workload) == {i \in DOMAIN workload.Pods : KeepPod(workload.Pods[i])}
KeptWorkloads(ws) == {w \in DOMAIN ws : KeptPods(ws[w]) # {}}

\* C13: the filter keeps exactly the pods with a problematic status or a
\* problematic init or standard container, and exactly the workloads with a
\* kept pod; what is kept stays in its original order and is otherwise unchanged.
C13_FilterExact ==
    pc = "filter_workloads_done" =>
        /\ Len(out) = Cardinality(KeptWorkloads(arg))
        /\ \A k \in DOMAIN out :
              LET source == arg[Nth(KeptWorkloads(arg), k)]
              IN  /\ Len(out[k].Pods) = Cardinality(KeptPods(source))
                  /\ \A n \in DOMAIN out[k].Pods :
                        out[k].Pods[n] = source.Pods[Nth(KeptPods(source), n)]
                  /\ [out[k] EXCEPT !.Pods = <<>>] = [source EXCEPT !.Pods = <<>>]

\* the first workload is dropped, and the second keeps its Pending pod only
C13_Witness ==
    /\ pc = "filter_workloads_done"
    /\ Len(arg) = MaxFilterWorkloads
    /\ Len(arg[1].Pods) > 0
    /\ Len(arg[2].Pods) = 2
    /\ Len(out) = 1
    /\ out[1].Name = "w2"
    /\ Len(out[1].Pods) = 1
    /\ out[1].Pods[1].Name = "p2"
    /\ out[1].Pods[1].Status = "Pending"
    /\ out[1].Health = arg[2].Health

(***************************************************************************)
(* Cluster objects and options given to the command                        *)
(***************************************************************************)
StateRunning(startedAt) ==
    [Kind |-> "Running", Reason |-> "", ExitCode |-> 0, StartedAt |-> startedAt]
StateWaiting(reason) ==
    [Kind |-> "Waiting", Reason |-> reason, ExitCode |-> 0, StartedAt |-> 0]
StateTerminated(reason, exitCode, startedAt) ==
    [Kind |-> "Terminated", Reason |-> reason, ExitCode |-> exitCode,
     StartedAt |-> startedAt]
StateNone == [Kind |-> "", Reason |-> "", ExitCode |-> 0, StartedAt |-> 0]

ContainerStatus(ready, restarts, state, last) ==
    [Ready |-> ready, RestartCount |-> restarts, State |-> state,
     LastTerminationState |-> last]

ContainerSpec(name, limits, readiness, status) ==
    [Name |-> name, Limits |-> limits, LivenessProbe |-> TRUE,
     ReadinessProbe |-> readiness, Status |-> status, Log |-> Ptr(<<"line">>),
     Env |-> <<>>]

\* a running container close to its memory limit
ContainerBusy ==
    ContainerSpec("app", Ptr([cpu |-> Ptr(500), memory |-> Ptr(256 * Mi)]), TRUE,
        Ptr(ContainerStatus(TRUE, 0, StateRunning(InitialNow - 60), StateNone)))

\* a running container that restarted RecentRestartWindow - 1 minutes before
\* the command started
ContainerRestarted ==
    ContainerSpec("app", Nil, FALSE,
        Ptr(ContainerStatus(TRUE, MaxRestarts,
                StateRunning(InitialNow - RecentRestartWindow + 1),
                StateTerminated("Error", 1, InitialNow - 30))))

ContainerCrashLoop ==
    ContainerSpec("app", Ptr([cpu |-> Nil, memory |-> Ptr(128 * Mi)]), TRUE,
        Ptr(ContainerStatus(FALSE, MaxRestarts, StateWaiting("CrashLoopBackOff"),
                StateTerminated("Error", 1, InitialNow - 2))))

\* a running container next to a failing one
ContainerSidecar ==
    ContainerSpec("sidecar", Nil, TRUE,
        Ptr(ContainerStatus(TRUE, 0, StateRunning(InitialNow - 60), StateNone)))

ContainerInitDone ==
    ContainerSpec("setup", Nil, FALSE,
        Ptr(ContainerStatus(FALSE, 0, StateTerminated("Completed", 0, InitialNow - 60),
                StateNone)))

ClusterPod(labels, owners, deletion, phase, init, containers, metrics) ==
    [Name |-> "", Namespace |-> "ns1", Labels |-> labels, OwnerReferences |-> owners,
     DeletionTimestamp |-> deletion, Phase |-> phase,
     InitContainers |-> init, Containers |-> containers, Metrics |-> metrics]

PodProfiles ==
    { ClusterPod({"tier=be", "app=web"}, <<OwnerReference("ReplicaSet", "web-rs")>>,
                 Nil, "Running", <<>>, <<ContainerBusy>>,
                 Ptr([name \in {"app"} |-> [cpu |-> 250, memory |-> 230 * Mi]])),
      ClusterPod({"tier=be", "app=db"}, <<OwnerReference("StatefulSet", "db")>>,
                 Nil, "Running", <<ContainerInitDone>>, <<ContainerRestarted>>, Nil),
      ClusterPod({"tier=be"}, <<>>,
                 Nil, "Running", <<>>, <<ContainerCrashLoop, ContainerSidecar>>,
                 Ptr([name \in {"app"} |-> [cpu |-> 10, memory |-> 64 * Mi]])),
      ClusterPod({"tier=be", "app=web"}, <<OwnerReference("ReplicaSet", "web-rs")>>,
                 Ptr(InitialNow - 1), "Running", <<>>, <<ContainerBusy>>, Nil) }

PodName(i) == "p" \o ToString(i)

\* pods are listed in name order
NamedPods(profiles) == [i \in DOMAIN profiles |-> [profiles[i] EXCEPT !.Name = PodName(i)]]

ClusterEvent(pod, eventTime, series, first, last) ==
    [Namespace |-> "ns1", InvolvedObject |-> pod, EventTime |-> eventTime,
     Series |-> series, FirstTimestamp |-> first, LastTimestamp |-> last,
     Type |-> "Warning", Reason |-> "BackOff"]

ClusterEvents ==
    << ClusterEvent("p1", Nil, Nil, Ptr(InitialNow - 90), Ptr(InitialNow - 10)),
       ClusterEvent("p2", Nil, Nil, Ptr(InitialNow - 90), Nil),
       ClusterEvent("web", Ptr(InitialNow - 1), Nil, Nil, Nil) >>

\* a cluster without a metrics client holds at most one pod: what the client's
\* absence does is the same for every pod
CommandClusters ==
    {c \in
        [pods : {NamedPods(profiles) : profiles \in SeqsUpTo(PodProfiles, MaxPods)},
         replicasets : {{ReplicaSetObject("web-rs", <<OwnerReference("Deployment", "web")>>)}},
         deployments : {{Controller("web", 1, 2, {"app=web"})}},
         statefulsets : {{Controller("db", 1, 1, {"app=db"})}},
         daemonsets : {{}},
         jobs : {{}},
         metrics : {"ok", "error", "no client"},
         events : {ClusterEvents},
         eventsFail : {FALSE}] :
        c.metrics = "no client" => Len(c.pods) <= 1}

CommandOptions(name, type, selector, logs, problematic) ==
    [ResourceName |-> name, ResourceType |-> type, Namespace |-> "ns1",
     AllNamespaces |-> FALSE, Selector |-> selector,
     ShowLogs |-> logs, Problematic |-> problematic,
     ContainerName |-> "",
     ShowEvents |-> FALSE, ShowEnv |-> FALSE, Wide |-> FALSE,
     ShowResourceUsage |-> FALSE, SinglePodView |-> FALSE]

CommandOptionValues ==
    {CommandOptions("web", "", NoSelector, FALSE, FALSE),
     CommandOptions("p1", "", NoSelector, TRUE, FALSE),
     CommandOptions("db", "statefulset", NoSelector, FALSE, TRUE),
     CommandOptions("", "", LabelSelector("tier=be"), TRUE, FALSE),
     CommandOptions("", "", LabelSelector("app=db"), FALSE, TRUE)}

(***************************************************************************)
(* SpecAnalyzer: the three scorers of the analyzer, each applied to one    *)
(* input of its kind                                                       *)
(***************************************************************************)
\* the pods of a workload given to AnalyzeWorkloadHealth
WorkloadPodValues ==
    {pod \in PodInputs : Len(pod.InitContainers) = 0 /\ Len(pod.Containers) <= 1}

WorkloadInputs ==
    {[WorkloadInfo("web", "Deployment", "ns1", "1/1", {}, {}) EXCEPT !.Pods = pods] :
        pods \in SeqsUpTo(WorkloadPodValues, MaxFilterPods)}

InitWorkload ==
    /\ now = InitialNow
    /\ pc = "workload"
    /\ arg \in WorkloadInputs
    /\ out = NoValue
    /\ NoCommand

AnalyzeWorkload ==
    /\ pc = "workload"
    /\ out' = AnalyzeWorkloadHealth(arg, now)
    /\ pc' = "workload_done"
    /\ UNCHANGED <<now, arg, command>>

InitAnalyzer == InitContainer \/ InitPod \/ InitWorkload

NextAnalyzer == AnalyzeContainer \/ AnalyzePod \/ AnalyzeWorkload

SpecAnalyzer == InitAnalyzer /\ [][NextAnalyzer]_vars

\* C20: every HealthStatus the analyzer returns for a container, a pod or a
\* workload has Level Healthy, Degraded or Critical and a Score in 0..100.
C20_HealthRange ==
    pc \in {"container_done", "pod_done", "workload_done"} =>
        /\ out.Level \in {HealthLevelHealthy, HealthLevelDegraded, HealthLevelCritical}
        /\ out.Score \in 0..100

\* a waiting container whose deductions go below zero: recent restarts, a
\* failing readiness probe, high memory and high CPU
C20_Witness ==
    /\ pc = "container_done"
    /\ arg.Status = ContainerStatusWaiting
    /\ arg.RestartCount > 0
    /\ arg.StartedAt = Ptr(InitialNow - 1)
    /\ arg.Probes.Readiness = ProbeDetails(TRUE, FALSE)
    /\ PctGT(arg.Resources.MemPercentage, 85)
    /\ PctGT(arg.Resources.CPUPercentage, 90)
    /\ out = HealthStatus(HealthLevelDegraded, "container waiting to start", 0)

(***************************************************************************)
(* SpecPodInfo: collectPodInfoWithData on one listed pod, over every phase *)
(* the API reports, with and without a deletion timestamp                  *)
(***************************************************************************)
PodPhases == {"Pending", "Running", "Succeeded", "Failed", "Unknown"}

PodInfoPods ==
    {[ClusterPod({"tier=be"}, <<>>, deletion, phase, init, <<container>>, metrics)
        EXCEPT !.Name = PodName(1)] :
        deletion \in {Nil, Ptr(InitialNow - 1)},
        phase \in PodPhases,
        init \in {<<>>, <<ContainerInitDone>>},
        container \in {ContainerBusy, ContainerRestarted, ContainerCrashLoop},
        metrics \in {Nil, Ptr([name \in {"app"} |-> [cpu |-> 250, memory |-> 230 * Mi]])}}

PodInfoOptions ==
    {CommandOptions("p1", "", NoSelector, TRUE, FALSE),
     [CommandOptions("", "", LabelSelector("tier=be"), FALSE, FALSE)
        EXCEPT !.ShowEnv = TRUE]}

PodInfoInputs ==
    {[pod |-> pod, opts |-> opts,
      podMetrics |-> IF pod.Metrics = Nil THEN Nil ELSE Ptr(podMetricsOf(pod)),
      podEvents |-> <<>>] : pod \in PodInfoPods, opts \in PodInfoOptions}

InitPodInfo ==
    /\ now = InitialNow
    /\ pc = "podinfo"
    /\ arg \in PodInfoInputs
    /\ out = NoValue
    /\ NoCommand

CollectPodInfo ==
    /\ pc = "podinfo"
    /\ pc' = "podinfo_done"
    /\ out' = collectPodInfoWithData(arg.pod, arg.opts, arg.podMetrics, arg.podEvents)
    /\ UNCHANGED <<now, arg, command>>

NextPodInfo == CollectPodInfo

SpecPodInfo == InitPodInfo /\ [][NextPodInfo]_vars

\* C16: the pod model's Status is "Terminating" whenever the pod carries a
\* deletion timestamp, whatever its phase, and is the raw phase otherwise
C16_TerminatingStatus ==
    pc = "podinfo_done" =>
        out.Status = IF arg.pod.DeletionTimestamp # Nil THEN "Terminating"
                     ELSE arg.pod.Phase

\* a pod being deleted whose phase is Failed came out as Terminating
C16_Witness ==
    /\ pc = "podinfo_done"
    /\ arg.pod.DeletionTimestamp # Nil
    /\ arg.pod.Phase = "Failed"
    /\ out.Status = "Terminating"

(***************************************************************************)
(* SpecDisplay: two runs of the command on the same Pod workload that      *)
(* differ only in the container name filter, side by side, from collection *)
(* to the rows the formatter prints                                        *)
(***************************************************************************)
\* Formatter.shouldShowContainer
shouldShowContainer(opts, containerName) ==
    IF opts.ContainerName = "" THEN TRUE
    ELSE containerName = opts.ContainerName

\* the rows of the container table: init containers, then regular ones
containerRows(opts, pod) ==
    LET shown(container) == shouldShowContainer(opts, container.Name)
    IN  SelectSeq(pod.InitContainers, shown) \o SelectSeq(pod.Containers, shown)

\* the options as the loop body of runContainerStatus leaves them for a Pod
runOptions(requested) ==
    [requested EXCEPT !.ShowEvents = TRUE, !.ShowEnv = TRUE, !.Wide = TRUE,
                      !.SinglePodView = TRUE, !.ShowResourceUsage = TRUE]

\* the Pod workload the resolver returns, with the pod CollectPods returns
collectRun(pod, requested) ==
    [WorkloadInfo(pod.Name, "Pod", pod.Namespace, "1/1", pod.Labels, {})
        EXCEPT !.Pods = <<collectPodInfoWithData(pod, runOptions(requested),
                            IF pod.Metrics = Nil THEN Nil ELSE Ptr(podMetricsOf(pod)),
                            <<>>)>>]

\* workloads[i].Pods[j].Health = analyzer.AnalyzePodHealth(pod)
analyzePodRun(workload, clock) ==
    [workload EXCEPT !.Pods[1].Health = AnalyzePodHealth(workload.Pods[1], clock)]

\* workloads[i].Health = analyzer.AnalyzeWorkloadHealth(workloads[i])
analyzeWorkloadRun(workload, clock) ==
    [workload EXCEPT !.Health = AnalyzeWorkloadHealth(workload, clock)]

\* the problematic filter if requested, then the formatter's container rows
outputRun(workload, requested) ==
    LET output == IF requested.Problematic THEN filterProblematicWorkloads(<<workload>>)
                  ELSE <<workload>>
    IN  [workloads |-> output,
         rows |-> [i \in DOMAIN output |-> containerRows(requested, output[i].Pods[1])]]

ContainerFilters == {"", "app", "sidecar", "setup"}

DisplayPods ==
    {[ClusterPod({"tier=be"}, <<>>, deletion, "Running", init, containers, metrics)
        EXCEPT !.Name = PodName(1)] :
        deletion \in {Nil, Ptr(InitialNow - 1)},
        init \in {<<>>, <<ContainerInitDone>>},
        containers \in {<<ContainerBusy>>, <<ContainerRestarted>>,
                        <<ContainerCrashLoop, ContainerSidecar>>},
        metrics \in {Nil, Ptr([name \in {"app"} |-> [cpu |-> 250, memory |-> 230 * Mi]])}}

DisplayOptions ==
    {[CommandOptions("p1", "", NoSelector, logs, problematic)
        EXCEPT !.ContainerName = name] :
        logs \in BOOLEAN, problematic \in BOOLEAN, name \in ContainerFilters}

\* arg.first and arg.second are the options of the two runs, out.first and
\* out.second their workloads
Runs == {"first", "second"}

InitDisplay ==
    /\ now = InitialNow
    /\ pc = "display"
    /\ arg \in {[pod |-> pod, first |-> opts,
                  second |-> [opts EXCEPT !.ContainerName = name]] :
                    pod \in DisplayPods, opts \in DisplayOptions,
                    name \in ContainerFilters}
    /\ out = NoValue
    /\ NoCommand

CollectDisplay ==
    /\ pc = "display"
    /\ pc' = "display_collected"
    /\ out' = [run \in Runs |-> collectRun(arg.pod, arg[run])]
    /\ UNCHANGED <<now, arg, command>>

AnalyzePodDisplay ==
    /\ pc = "display_collected"
    /\ pc' = "display_pod_analyzed"
    /\ out' = [run \in Runs |-> analyzePodRun(out[run], now)]
    /\ UNCHANGED <<now, arg, command>>

AnalyzeWorkloadDisplay ==
    /\ pc = "display_pod_analyzed"
    /\ pc' = "display_analyzed"
    /\ out' = [run \in Runs |-> analyzeWorkloadRun(out[run], now)]
    /\ UNCHANGED <<now, arg, command>>

OutputDisplay ==
    /\ pc = "display_analyzed"
    /\ pc' = "display_done"
    /\ out' = [run \in Runs |-> outputRun(out[run], arg[run])]
    /\ UNCHANGED <<now, arg, command>>

NextDisplay ==
    \/ CollectDisplay
    \/ AnalyzePodDisplay
    \/ AnalyzeWorkloadDisplay
    \/ OutputDisplay

SpecDisplay == InitDisplay /\ [][NextDisplay]_vars

\* C19: two runs on the same cluster state that differ only in the container
\* name filter give the same collected containers, the same pod and workload
\* Health and the same result of the problematic filter.
C19_FilterOnlyDisplays ==
    /\ pc \in {"display_collected", "display_pod_analyzed", "display_analyzed"}
          => out.first = out.second
    /\ pc = "display_done" => out.first.workloads = out.second.workloads

\* a pod kept by the problematic filter for its failing container "app";
\* one run shows all its containers, the other only the healthy "sidecar"
C19_Witness ==
    /\ pc = "display_done"
    /\ arg.first.Problematic
    /\ arg.first.ContainerName = ""
    /\ arg.second.ContainerName = "sidecar"
    /\ Len(out.second.workloads) = 1
    /\ Len(out.second.workloads[1].Pods[1].Containers) = 2
    /\ out.second.workloads[1].Pods[1].Health.Level = HealthLevelCritical
    /\ Len(out.first.rows[1]) = 2
    /\ Len(out.second.rows[1]) = 1

(***************************************************************************)
(* Spec: runContainerStatus; arg keeps the options as they were given,     *)
(* options is the object the run mutates                                   *)
(***************************************************************************)
Init ==
    /\ now = InitialNow
    /\ pc = "start"
    /\ out = NoValue
    /\ cluster \in CommandClusters
    /\ options \in CommandOptionValues
    /\ arg = options
    /\ workloads = <<>>
    /\ err = Nil
    /\ wi = 0
    /\ pj = 0
    /\ frame = NoValue
    /\ tasks = <<>>
    /\ results = <<>>
    /\ ret = NoValue

Fail(msg, cause) ==
    /\ pc' = "failed"
    /\ err' = Ptr([msg |-> msg, cause |-> cause])

\* the clock advances while the command runs
Tick ==
    /\ pc \notin {"done", "failed", "panicked"}
    /\ now < InitialNow + MaxTicks
    /\ now' = now + 1
    /\ UNCHANGED <<pc, arg, out, command>>

\* runContainerStatus up to and including resolver.Resolve
ResolveStep ==
    /\ pc = "start"
    /\ LET opts == [options EXCEPT !.ShowEvents = TRUE, !.ShowEnv = TRUE, !.Wide = TRUE]
       IN  /\ options' = opts
           /\ \E r \in Resolve(cluster, opts) :
                IF r.panic
                THEN pc' = "panicked" /\ UNCHANGED <<workloads, err, wi>>
                ELSE IF r.err # Nil
                THEN Fail("failed to resolve resources", r.err[1])
                     /\ UNCHANGED <<workloads, wi>>
                ELSE IF Len(r.workloads) = 0
                THEN Fail("no resources found", NoValue) /\ UNCHANGED <<workloads, wi>>
                ELSE /\ workloads' = r.workloads
                     /\ wi' = 1
                     /\ pc' = "collect"
                     /\ UNCHANGED err
    /\ UNCHANGED <<now, arg, out, cluster, pj, frame, tasks, results, ret>>

\* the pods CollectPods works on: [pods, err]
listPods(c, workload) ==
    IF workload.Kind = "Pod"
    THEN LET pod == Get(PodSet(c), workload.Namespace, workload.Name)
         IN  IF pod = Nil THEN [pods |-> <<>>, err |-> Ptr("failed to get pod")]
             ELSE [pods |-> <<pod[1]>>, err |-> Nil]
    ELSE [pods |-> ListPods(c, workload.Namespace, workload.Selector), err |-> Nil]

\* the loop body of runContainerStatus up to the pod listing of CollectPods
BeginCollect ==
    /\ pc = "collect"
    /\ LET workload == workloads[wi]
           isSinglePod == workload.Kind = "Pod"
           listed == listPods(cluster, workload)
       IN  /\ options' = [options EXCEPT
                            !.SinglePodView = isSinglePod,
                            !.ShowLogs = IF @ /\ ~isSinglePod THEN FALSE ELSE @,
                            !.ShowResourceUsage = TRUE]
           /\ IF listed.err # Nil
              THEN /\ Fail("failed to collect pod data", listed.err[1])
                   /\ ret' = [pods |-> <<>>, err |-> listed.err]
                   /\ UNCHANGED frame
              ELSE /\ frame' = [pods |-> listed.pods,
                                bulkMetrics |-> Nil,
                                bulkEvents |-> Nil,
                                metricsWarning |-> FALSE,
                                podInfos |-> [i \in 0..(Len(listed.pods) - 1) |-> Nil],
                                i |-> 0,
                                arrived |-> <<>>]
                   /\ pc' = "bulk"
                   /\ UNCHANGED <<err, ret>>
    /\ UNCHANGED <<now, arg, out, cluster, workloads, wi, pj, tasks, results>>

\* the bulk metrics and events calls of CollectPods
BulkFetch ==
    /\ pc = "bulk"
    /\ LET workload == workloads[wi]
           wantMetrics == ~options.SinglePodView \/ options.ShowResourceUsage
           m == collectBulkMetrics(cluster, workload.Namespace)
           wantEvents == options.ShowEvents /\ Len(frame.pods) > 0
           e == collectBulkEvents(cluster, workload.Namespace, frame.pods, options, now)
       IN  frame' = [frame EXCEPT
                        !.bulkMetrics = IF ~wantMetrics THEN Nil
                                        ELSE IF m.err # Nil THEN Ptr(EmptyMap)
                                        ELSE m.metrics,
                        !.metricsWarning = wantMetrics /\ m.err # Nil,
                        !.bulkEvents = IF ~wantEvents THEN Nil
                                       ELSE IF e.err # Nil THEN Ptr(EmptyMap)
                                       ELSE e.events]
    /\ pc' = "spawn"
    /\ UNCHANGED <<now, arg, out, cluster, options, workloads, err, wi, pj,
                   tasks, results, ret>>

\* results := make(chan result, len(pods)): the capacity of the channel
resultsCap_Unbuffered(pods) == 0
resultsCap(pods) == Len(pods)

\* one goroutine per listed pod, and the channel they send on
Spawn ==
    /\ pc = "spawn"
    /\ tasks' = [i \in 0..(Len(frame.pods) - 1) |-> "running"]
    /\ results' = <<>>
    /\ pc' = "receive"
    /\ UNCHANGED <<now, arg, out, cluster, options, workloads, err, wi, pj, frame, ret>>

Lookup(m, name) ==
    IF m = Nil THEN Nil
    ELSE IF name \in DOMAIN m[1] THEN Ptr(m[1][name])
    ELSE Nil

\* goroutine index collects its pod and sends the result
TaskSend(index) ==
    /\ index \in DOMAIN tasks
    /\ tasks[index] = "running"
    /\ Len(results) < resultsCap(frame.pods)
    /\ LET p == frame.pods[index + 1]
           podMetrics == Lookup(frame.bulkMetrics, p.Name)
           found == Lookup(frame.bulkEvents, p.Name)
           podEvents == IF found = Nil THEN <<>> ELSE found[1]
           podInfo == collectPodInfoWithData(p, options, podMetrics, podEvents)
       IN  results' = Append(results, [index |-> index, pod |-> Ptr(podInfo), err |-> Nil])
    /\ tasks' = [tasks EXCEPT ![index] = "done"]
    /\ UNCHANGED <<now, pc, arg, out, cluster, options, workloads, err, wi, pj, frame, ret>>

\* the collector takes one result off the channel; arrived records the order
\* in which the results came in
placeResult_ByArrival(f, res) ==
    [f EXCEPT !.podInfos[f.i] = res.pod, !.i = @ + 1,
              !.arrived = Append(@, res.index)]
placeResult(f, res) ==
    [f EXCEPT !.podInfos[res.index] = res.pod, !.i = @ + 1,
              !.arrived = Append(@, res.index)]

collectError_FirstPod(res) ==
    [msg |-> "failed to collect pod info for pod", index |-> 0, cause |-> res.err[1]]
collectError(res) ==
    [msg |-> "failed to collect pod info for pod", index |-> res.index,
     cause |-> res.err[1]]

Receive ==
    /\ pc = "receive"
    /\ frame.i < Len(frame.pods)
    /\ results # <<>>
    /\ LET res == Head(results)
       IN  /\ results' = Tail(results)
           /\ IF res.err # Nil
              THEN /\ ret' = [pods |-> <<>>, err |-> Ptr(collectError(res))]
                   /\ Fail("failed to collect pod data", collectError(res))
                   /\ UNCHANGED frame
              ELSE /\ frame' = placeResult(frame, res)
                   /\ UNCHANGED <<pc, err, ret>>
    /\ UNCHANGED <<now, arg, out, cluster, options, workloads, wi, pj, tasks>>

finalPods(podInfos) ==
    LET RECURSIVE build(_)
        build(k) ==
            IF k < 0 THEN <<>>
            ELSE IF podInfos[k] # Nil THEN Append(build(k - 1), podInfos[k][1])
            ELSE build(k - 1)
    IN  build(Cardinality(DOMAIN podInfos) - 1)

\* CollectPods returns; the command stores the pods in the workload
FinishCollect ==
    /\ pc = "receive"
    /\ frame.i = Len(frame.pods)
    /\ ret' = [pods |-> finalPods(frame.podInfos), err |-> Nil]
    /\ workloads' = [workloads EXCEPT ![wi].Pods = ret'.pods]
    /\ pj' = 1
    /\ pc' = "analyze"
    /\ UNCHANGED <<now, arg, out, cluster, options, err, wi, frame, tasks, results>>

\* workloads[i].Pods[j].Health = analyzer.AnalyzePodHealth(pod)
AnalyzePodStep ==
    /\ pc = "analyze"
    /\ pj <= Len(workloads[wi].Pods)
    /\ workloads' = [workloads EXCEPT
                        ![wi].Pods[pj].Health = AnalyzePodHealth(workloads[wi].Pods[pj], now)]
    /\ pj' = pj + 1
    /\ UNCHANGED <<now, pc, arg, out, cluster, options, err, wi, frame, tasks, results, ret>>

\* workloads[i].Health = analyzer.AnalyzeWorkloadHealth(workloads[i])
AnalyzeWorkloadStep ==
    /\ pc = "analyze"
    /\ pj > Len(workloads[wi].Pods)
    /\ workloads' = [workloads EXCEPT
                        ![wi].Health = AnalyzeWorkloadHealth(workloads[wi], now)]
    /\ wi' = wi + 1
    /\ pc' = IF wi < Len(workloads) THEN "collect" ELSE "filter"
    /\ UNCHANGED <<now, arg, out, cluster, options, err, pj, frame, tasks, results, ret>>

\* the problematic filter, then the formatter takes the workloads
FilterAndOutput ==
    /\ pc = "filter"
    /\ workloads' = IF options.Problematic THEN filterProblematicWorkloads(workloads)
                    ELSE workloads
    /\ pc' = "done"
    /\ UNCHANGED <<now, arg, out, cluster, options, err, wi, pj, frame, tasks, results, ret>>

Next ==
    \/ Tick
    \/ ResolveStep
    \/ BeginCollect
    \/ BulkFetch
    \/ Spawn
    \/ \E index \in 0..(MaxPods - 1) : TaskSend(index)
    \/ Receive
    \/ FinishCollect
    \/ AnalyzePodStep
    \/ AnalyzeWorkloadStep
    \/ FilterAndOutput

Spec == Init /\ [][Next]_vars

(***************************************************************************)
(* SpecTaskErr: the same command when collecting one pod can fail.         *)
(* collectPodInfoWithData is declared to return a PodInfo pointer and an   *)
(* error; its body returns a nil error on every path, so the error branch  *)
(* of the receiving loop is only reached under this specification.         *)
(***************************************************************************)
TaskSendErr(index) ==
    /\ index \in DOMAIN tasks
    /\ tasks[index] = "running"
    /\ Len(results) < resultsCap(frame.pods)
    /\ LET p == frame.pods[index + 1]
           failure == [msg |-> "pod collection failed", pod |-> p.Name]
       IN  results' = Append(results, [index |-> index, pod |-> Nil, err |-> Ptr(failure)])
    /\ tasks' = [tasks EXCEPT ![index] = "failed"]
    /\ UNCHANGED <<now, pc, arg, out, cluster, options, workloads, err, wi, pj, frame, ret>>

NextTaskErr ==
    \/ Next
    \/ \E index \in 0..(MaxPods - 1) : TaskSendErr(index)

SpecTaskErr == Init /\ [][NextTaskErr]_vars

\* SpecTaskErrFair: a started goroutine keeps being scheduled until it has
\* sent its result; nothing is assumed about the receiving side
GoroutineStep(index) == TaskSend(index) \/ TaskSendErr(index)

\* whether a send blocks depends on how many pods are listed, not on what
\* they hold: the clusters here list up to MaxPods pods of one profile
CollectClusters ==
    {c \in CommandClusters :
        /\ c.metrics = "ok"
        /\ \A i \in DOMAIN c.pods :
              [c.pods[i] EXCEPT !.Name = ""] = [c.pods[1] EXCEPT !.Name = ""]}

InitCollect == Init /\ cluster \in CollectClusters

SpecTaskErrFair ==
    /\ InitCollect
    /\ [][NextTaskErr]_vars
    /\ \A index \in 0..(MaxPods - 1) : WF_vars(GoroutineStep(index))

(***************************************************************************)
(* Properties of CollectPods inside the command                            *)
(***************************************************************************)
\* CollectPods has returned successfully for the workload at wi
Collected == pc = "analyze"

\* the pod model collectPodInfoWithData builds for the listed pod at position i
ModelOfListed(i) ==
    LET p == frame.pods[i]
        found == Lookup(frame.bulkEvents, p.Name)
    IN  collectPodInfoWithData(p, options, Lookup(frame.bulkMetrics, p.Name),
                               IF found = Nil THEN <<>> ELSE found[1])

WithoutHealth(pod) == [pod EXCEPT !.Health = HealthStatus("", "", 0)]

\* C1: a successful CollectPods returns one pod model per listed pod, and the
\* i-th returned pod is the model of the i-th listed pod, whatever the order
\* in which the goroutines completed.
C1_ListingOrder ==
    Collected =>
        /\ ret.err = Nil
        /\ Len(ret.pods) = Len(frame.pods)
        /\ \A i \in 1..Len(frame.pods) :
              /\ ret.pods[i] = ModelOfListed(i)
              /\ WithoutHealth(workloads[wi].Pods[i]) = ModelOfListed(i)

\* the results of two pods came in against the listing order
C1_Witness ==
    /\ Collected
    /\ Len(frame.pods) = MaxPods
    /\ frame.arrived[1] > frame.arrived[2]
    /\ ret.pods[1].Name = "p1"
    /\ ret.pods[1] # ret.pods[2]

\* CollectPods has returned for the current listing
Returned == pc \in {"analyze", "collect", "filter", "done", "failed"} /\ ret # NoValue

\* C2: when a per-pod task reports an error, CollectPods returns no pods and an
\* error that names the failing pod's index and wraps the task's error; it
\* never returns successfully.
C2_FailFast ==
    (Returned /\ \E index \in DOMAIN tasks : tasks[index] = "failed") =>
        /\ pc = "failed"
        /\ ret.pods = <<>>
        /\ ret.err # Nil
        /\ ret.err[1].msg = "failed to collect pod info for pod"
        /\ ret.err[1].index \in DOMAIN tasks
        /\ tasks[ret.err[1].index] = "failed"
        /\ ret.err[1].cause.pod = frame.pods[ret.err[1].index + 1].Name
        /\ err = Ptr([msg |-> "failed to collect pod data", cause |-> ret.err[1]])

\* workload w, or pod p of it when p # "", is among the workloads ws
Listed(ws, w, p) ==
    \E j \in DOMAIN ws :
        /\ ws[j].Kind = w.Kind
        /\ ws[j].Name = w.Name
        /\ ws[j].Namespace = w.Namespace
        /\ p # "" => \E k \in DOMAIN ws[j].Pods : ws[j].Pods[k].Name = p

\* C29: the problematic filter hides nothing Critical: it keeps every workload
\* whose Health.Level is Critical, one with no pods included, and every pod
\* whose Health.Level is Critical.
C29_CriticalKept ==
    [][(pc = "filter" /\ pc' = "done" /\ options.Problematic) =>
          \A i \in DOMAIN workloads :
              /\ workloads[i].Health.Level = HealthLevelCritical
                    => Listed(workloads', workloads[i], "")
              /\ \A k \in DOMAIN workloads[i].Pods :
                    workloads[i].Pods[k].Health.Level = HealthLevelCritical
                        => Listed(workloads', workloads[i], workloads[i].Pods[k].Name)]_vars

\* no started goroutine is still before its send
AllSent == \A index \in DOMAIN tasks : tasks[index] # "running"

\* C27: in every execution of CollectPods, with or without an early return on
\* a per-pod error, every started goroutine eventually completes its send on
\* the results channel and terminates; none stays blocked.
C27_GoroutinesTerminate == []<>AllSent

\* the send of a started goroutine can never block: the channel has room
C27_SendNeverBlocks ==
    \A index \in DOMAIN tasks :
        tasks[index] = "running" => Len(results) < resultsCap(frame.pods)

\* CollectPods returned on the error of the second pod before the first
\* goroutine sent; that goroutine's result then sat in the channel unreceived
C27_Witness ==
    /\ pc = "failed"
    /\ frame # NoValue
    /\ Len(frame.pods) = MaxPods
    /\ DOMAIN tasks = 0..(MaxPods - 1)
    /\ tasks[1] = "failed"
    /\ tasks[0] = "done"
    /\ ret.err # Nil
    /\ ret.err[1].index = 1
    /\ Len(results) = 1
    /\ results[1].index = 0

\* the second listed pod failed after the first one had been collected
C2_Witness ==
    /\ pc = "failed"
    /\ frame # NoValue
    /\ Len(frame.pods) = MaxPods
    /\ DOMAIN tasks = 0..(MaxPods - 1)
    /\ tasks[0] = "done"
    /\ frame.podInfos[0] # Nil
    /\ tasks[1] = "failed"
    /\ ret.pods = <<>>
    /\ ret.err # Nil
    /\ ret.err[1].index = 1

PodContainers(pod) == pod.InitContainers \o pod.Containers

\* C3: when the bulk metrics call fails, with a backend error or without a
\* metrics client, CollectPods does not fail and every container of every
\* returned pod has CPUPercentage and MemPercentage 0.
C3_MetricsFallback ==
    cluster.metrics # "ok" =>
        /\ ~(pc = "failed" /\ wi > 0)
        /\ pc \in {"spawn", "receive"} => frame.metricsWarning
        /\ ret # NoValue =>
              /\ ret.err = Nil
              /\ \A i \in DOMAIN ret.pods :
                    \A k \in DOMAIN PodContainers(ret.pods[i]) :
                        LET resources == PodContainers(ret.pods[i])[k].Resources
                        IN  /\ resources.CPUPercentage.n = 0
                            /\ resources.MemPercentage.n = 0

\* a pod with limits and with usage in the metrics backend was returned
C3_Witness ==
    /\ cluster.metrics # "ok"
    /\ Collected
    /\ \E i \in DOMAIN ret.pods :
          /\ frame.pods[i].Metrics # Nil
          /\ ret.pods[i].Containers[1].Resources.MemLimit # EmptyString
          /\ ret.pods[i].Containers[1].Resources.MemPercentage.n = 0

\* the pod of the cluster with this name belongs to the workload: its owner
\* chain leads to the workload's kind, namespace and name
MemberOf(name, workload) ==
    \E p \in PodSet(cluster) :
        /\ p.Name = name
        /\ p.Namespace = workload.Namespace
        /\ LET owner == getWorkloadFromPod(cluster, p)
           IN  /\ owner # Nil
               /\ owner[1].Kind = workload.Kind
               /\ owner[1].Name = workload.Name

\* the pod of the cluster with this name matches the selector the user gave
MatchesUserSelector(name) ==
    \E p \in PodSet(cluster) :
        /\ p.Name = name
        /\ options.Selector.Requirements \subseteq p.Labels

\* C4: a workload that selector resolution derived from an owner chain gets
\* only its member pods attached by CollectPods: a pod that is not a member
\* and did not match the user's selector is never attached.
C4_MemberPodsOnly ==
    (options.Selector # NoSelector /\ pc \in {"analyze", "collect", "filter", "done"}) =>
        \A w \in DOMAIN workloads :
            workloads[w].Kind # "Pod" =>
                \A i \in DOMAIN workloads[w].Pods :
                    \/ MemberOf(workloads[w].Pods[i].Name, workloads[w])
                    \/ MatchesUserSelector(workloads[w].Pods[i].Name)

StoredLevels(workload) == {workload.Pods[i].Health.Level : i \in DOMAIN workload.Pods}
StoredScores(workload) == [i \in DOMAIN workload.Pods |-> workload.Pods[i].Health]

\* C10: after the pods' Health has been stored, the workload's Health is
\* Critical/0/"no pods found" without pods, and otherwise its Score is the
\* floor average of the stored pod scores and its Level the worst stored level.
C10_WorkloadFromStored ==
    pc \in {"collect", "bulk", "spawn", "receive", "analyze", "filter"} =>
        \A w \in 1..(wi - 1) :
            LET workload == workloads[w]
            IN  IF Len(workload.Pods) = 0
                THEN workload.Health = HealthStatus(HealthLevelCritical, "no pods found", 0)
                ELSE /\ workload.Health.Score =
                            SumScores(StoredScores(workload)) \div Len(workload.Pods)
                     /\ workload.Health.Level =
                            IF HealthLevelCritical \in StoredLevels(workload)
                            THEN HealthLevelCritical
                            ELSE IF HealthLevelDegraded \in StoredLevels(workload)
                            THEN HealthLevelDegraded
                            ELSE HealthLevelHealthy


\* in every workload handed to the formatter, a Running container carries
\* log lines exactly when the workload is a Pod
LogsFollowKind ==
    \A i \in DOMAIN workloads :
        \A j \in DOMAIN workloads[i].Pods :
            \A k \in DOMAIN PodContainers(workloads[i].Pods[j]) :
                LET container == PodContainers(workloads[i].Pods[j])[k]
                IN  container.Status = ContainerStatusRunning =>
                        ((container.Logs # <<>>) <=> (workloads[i].Kind = "Pod"))

\* C18: when logs are requested, every workload of the resolved sequence,
\* in whatever order, has logs collected for its Running containers iff its
\* kind is Pod, also when a workload of another kind was processed before it.
C18_LogsIffPod ==
    (pc = "done" /\ arg.ShowLogs) => LogsFollowKind


(***************************************************************************)
(* SpecShared: two goroutines call the analyzer on the same pod model.     *)
(* A slice is its length and the capacity of its backing array; arg is the *)
(* pod as the collector built it, pc the position of every goroutine, out  *)
(* the accesses made so far to memory reachable from the argument.         *)
(***************************************************************************)
\* capacity of a slice grown from nil by n single appends, as
\* collectPodInfoWithData grows InitContainers and Containers (the runtime
\* doubles small slices)
grownCap(n) ==
    LET RECURSIVE grow(_)
        grow(k) ==
            IF k = 0 THEN 0
            ELSE LET before == grow(k - 1)
                 IN  IF k <= before THEN before
                     ELSE IF before = 0 THEN 1
                     ELSE 2 * before
    IN  grow(n)

Slice(n) == [len |-> n, cap |-> grownCap(n)]

SharedPods ==
    {[InitContainers |-> Slice(i), Containers |-> Slice(c)] :
        i \in 0..MaxSliceLen, c \in 0..MaxSliceLen}

Goroutines == {1, 2}

Access(g, array, index, write) ==
    [goroutine |-> g, array |-> array, index |-> index, write |-> write]

\* append(pod.InitContainers, pod.Containers...) stores into the backing
\* array of InitContainers when the result fits its capacity
appendsInPlace(pod) ==
    pod.InitContainers.len + pod.Containers.len <= pod.InitContainers.cap

\* the accesses of allContainers := append(pod.InitContainers, pod.Containers...)
appendAccesses(g, pod) ==
    IF appendsInPlace(pod)
    THEN {Access(g, "Containers", j, FALSE) : j \in 1..pod.Containers.len}
         \cup {Access(g, "InitContainers", pod.InitContainers.len + j, TRUE) :
                   j \in 1..pod.Containers.len}
    ELSE {Access(g, "InitContainers", i, FALSE) : i \in 1..pod.InitContainers.len}
         \cup {Access(g, "Containers", j, FALSE) : j \in 1..pod.Containers.len}

\* the accesses of the loop over allContainers
loopAccesses(g, pod) ==
    IF appendsInPlace(pod)
    THEN {Access(g, "InitContainers", k, FALSE) :
             k \in 1..(pod.InitContainers.len + pod.Containers.len)}
    ELSE {}

InitShared ==
    /\ now = InitialNow
    /\ pc = [g \in Goroutines |-> "idle"]
    /\ arg \in SharedPods
    /\ out = {}
    /\ NoCommand

\* a goroutine calls AnalyzePodHealth(pod): the pod struct is copied
CallPod(g) ==
    /\ pc[g] = "idle"
    /\ pc' = [pc EXCEPT ![g] = "append"]
    /\ out' = out \cup {Access(g, "Pod", 1, FALSE)}
    /\ UNCHANGED <<now, arg, command>>

\* a goroutine calls AnalyzeWorkloadHealth on the workload holding the pod:
\* its loop copies the pod out of workload.Pods and calls AnalyzePodHealth
CallWorkload(g) ==
    /\ pc[g] = "idle"
    /\ pc' = [pc EXCEPT ![g] = "append"]
    /\ out' = out \cup {Access(g, "Workload", 1, FALSE), Access(g, "Pod", 1, FALSE)}
    /\ UNCHANGED <<now, arg, command>>

AppendContainers(g) ==
    /\ pc[g] = "append"
    /\ pc' = [pc EXCEPT ![g] = "loop"]
    /\ out' = out \cup appendAccesses(g, arg)
    /\ UNCHANGED <<now, arg, command>>

LoopContainers(g) ==
    /\ pc[g] = "loop"
    /\ pc' = [pc EXCEPT ![g] = "returned"]
    /\ out' = out \cup loopAccesses(g, arg)
    /\ UNCHANGED <<now, arg, command>>

NextShared ==
    \E g \in Goroutines :
        \/ CallPod(g)
        \/ CallWorkload(g)
        \/ AppendContainers(g)
        \/ LoopContainers(g)

SpecShared == InitShared /\ [][NextShared]_vars

\* two accesses conflict: different goroutines, same location, one a write
Conflict(a, b) ==
    /\ a.goroutine # b.goroutine
    /\ a.array = b.array
    /\ a.index = b.index
    /\ a.write \/ b.write

\* C21: AnalyzePodHealth and AnalyzeWorkloadHealth never write to memory
\* reachable from their argument, the spare capacity of the InitContainers
\* backing array included, so concurrent calls on the same model have no
\* conflicting accesses.
C21_NoMutation ==
    /\ \A a \in out : ~a.write
    /\ \A a, b \in out : ~Conflict(a, b)


(***************************************************************************)
(* SpecEvents: collectBulkEvents for one listed pod and one event of the   *)
(* namespace, over every combination of present and absent timestamps      *)
(***************************************************************************)
\* inside the brief window, inside the hour only, outside both
EventTimes == {Ptr(InitialNow - 1), Ptr(InitialNow - 30), Ptr(InitialNow - 90)}

EventSeries == {Nil, Ptr([LastObservedTime |-> Nil])}
               \cup {Ptr([LastObservedTime |-> t]) : t \in EventTimes}

EventInputs ==
    [event : {ClusterEvent(pod, eventTime, series, first, last) :
                 pod \in {"p1", "p9"},
                 eventTime \in {Nil} \cup EventTimes,
                 series \in EventSeries,
                 first \in {Nil} \cup EventTimes,
                 last \in {Nil} \cup EventTimes},
     showEvents : BOOLEAN]

InitEvents ==
    /\ now = InitialNow
    /\ pc = "events"
    /\ arg \in EventInputs
    /\ out = NoValue
    /\ NoCommand

CollectEvents ==
    /\ pc = "events"
    /\ pc' = "events_done"
    /\ out' = collectBulkEvents([events |-> <<arg.event>>, eventsFail |-> FALSE], "ns1",
                                <<[Name |-> "p1"]>>,
                                [ShowEvents |-> arg.showEvents], now)
    /\ UNCHANGED <<now, arg, command>>

NextEvents == CollectEvents

SpecEvents == InitEvents /\ [][NextEvents]_vars

\* the timestamp in the order series observation, eventTime, lastTimestamp,
\* firstTimestamp
PreferredTime(event) ==
    IF event.Series # Nil /\ event.Series[1].LastObservedTime # Nil
    THEN event.Series[1].LastObservedTime
    ELSE IF event.EventTime # Nil THEN event.EventTime
    ELSE IF event.LastTimestamp # Nil THEN event.LastTimestamp
    ELSE event.FirstTimestamp

InsideWindow(time, showEvents, clock) ==
    /\ time # Nil
    /\ time[1] > clock - (IF showEvents THEN EventsHour ELSE EventsBrief)

\* C26: an event is attached to the pod's events iff it names the pod and its
\* effective timestamp is inside the window; the effective timestamp is the
\* series observation time if present, else eventTime, else lastTimestamp,
\* else firstTimestamp, for every combination of present and absent fields.
C26_EffectiveTimestamp ==
    pc = "events_done" =>
        LET attached == IF "p1" \in DOMAIN out.events[1] THEN out.events[1]["p1"]
                        ELSE <<>>
        IN  IF /\ arg.event.InvolvedObject = "p1"
               /\ InsideWindow(PreferredTime(arg.event), arg.showEvents, now)
            THEN /\ Len(attached) = 1
                 /\ attached[1].Time = PreferredTime(arg.event)[1]
            ELSE attached = <<>>


(***************************************************************************)
(* SpecDetect: one name that exists under exactly one kind, resolved once  *)
(* without a resource type and once with the type written out              *)
(***************************************************************************)
\* the spellings resolveByType accepts for a kind
TypeNames(kind) ==
    CASE kind = "Pod" -> {"pod", "pods", "po", "Pod"}
      [] kind = "Deployment" -> {"deployment", "deployments", "deploy", "Deployment"}
      [] kind = "StatefulSet" -> {"statefulset", "statefulsets", "sts"}
      [] kind = "DaemonSet" -> {"daemonset", "daemonsets", "ds"}
      [] kind = "Job" -> {"job", "jobs", "Job"}

DetectClusters ==
    {c \in
        [pods : {<<>>, <<ResolverPodUniverse[4]>>, <<ResolverPodUniverse[5]>>,
                 <<ResolverPodUniverse[4], ResolverPodUniverse[5]>>},
         replicasets : {{}},
         deployments : {{}, {Controller("web", 1, 2, {"app=web"})},
                        {Controller("web", 0, 0, {})}},
         statefulsets : {{}, {Controller("web", 1, 1, {"app=web"})}},
         daemonsets : {{}, {Controller("web", 2, 3, {"app=web"})}},
         jobs : {{}, {JobObject("web", 0, Nil)}, {JobObject("web", 1, Ptr(2))},
                 {JobWithoutSelector("web", 0, Ptr(1))}}] :
        Cardinality(KindsOfName(c, "ns1", "web")) = 1}

InitDetect ==
    /\ now = InitialNow
    /\ pc = "detect"
    /\ cluster \in DetectClusters
    /\ options = Options("web", "", "ns1", FALSE, NoSelector)
    /\ \E kind \in KindsOfName(cluster, "ns1", "web") :
          \E type \in TypeNames(kind) : arg = [options EXCEPT !.ResourceType = type]
    /\ out = [auto |-> NoValue, typed |-> NoValue]
    /\ workloads = <<>>
    /\ err = Nil
    /\ wi = 0
    /\ pj = 0
    /\ frame = NoValue
    /\ tasks = <<>>
    /\ results = <<>>
    /\ ret = NoValue

\* Resolve without a resource type
ResolveAuto ==
    /\ pc \in {"detect", "detect_typed"}
    /\ \E r \in Resolve(cluster, options) : out' = [out EXCEPT !.auto = r]
    /\ pc' = IF pc = "detect" THEN "detect_auto" ELSE "detect_done"
    /\ UNCHANGED <<now, arg, command>>

\* Resolve with the kind written out
ResolveTyped ==
    /\ pc \in {"detect", "detect_auto"}
    /\ \E r \in Resolve(cluster, arg) : out' = [out EXCEPT !.typed = r]
    /\ pc' = IF pc = "detect" THEN "detect_typed" ELSE "detect_done"
    /\ UNCHANGED <<now, arg, command>>

NextDetect == ResolveAuto \/ ResolveTyped

SpecDetect == InitDetect /\ [][NextDetect]_vars

Descriptor(w) ==
    [Kind |-> w.Kind, Name |-> w.Name, Namespace |-> w.Namespace,
     Replicas |-> w.Replicas, Selector |-> w.Selector]

ReturnsOne(r) == ~r.panic /\ r.err = Nil /\ Len(r.workloads) = 1

\* C30: for a name that exists under exactly one of the kinds Pod, Deployment,
\* StatefulSet, DaemonSet, Job, in every state of that resource (a Job without
\* completions or without selector included), resolving without a type
\* returns normally and yields the workload descriptor (kind, name, namespace,
\* replicas, selector) that resolving with the type written out yields.
C30_AutoDetectAsTyped ==
    pc = "detect_done" =>
        /\ ReturnsOne(out.auto)
        /\ ReturnsOne(out.typed)
        /\ Descriptor(out.auto.workloads[1]) = Descriptor(out.typed.workloads[1])

====
